---- MODULE Spec2Model ----
(***************************************************************************)
(* Model of akflib's declarative scenario engine (akflib.declarative):     *)
(* module registry (build_module_cache / get_akf_modules), the execution   *)
(* engine (execution_entrypoint) and the code generation engine            *)
(* (translation_entrypoint), as driven by the `main` command.              *)
(*                                                                         *)
(* Encoding of Python values used throughout:                              *)
(*   - a dotted name "a.b.C" is the pair <<"a.b", "C">> (container path,   *)
(*     final identifier), which is what every split(".") in the code       *)
(*     computes; a single-segment name "x" is <<"", "x">>;                 *)
(*   - a dict is a function whose DOMAIN is the key set;                   *)
(*   - generated text is a sequence of tokens, NL being the line           *)
(*     terminator "\n".                                                    *)
(***************************************************************************)
EXTENDS Integers, Sequences, FiniteSets, TLC

\* ------------------------------------------------------------------ bounds
MaxLibs == 2
MaxActions == 2
MaxRng == 2
MaxPasses == 2
MaxPairLen == 4
MaxObjects == 3

\* ------------------------------------------------------- generic helpers
None == "None"

EmptyDict == << >>

RECURSIVE SeqToSet(_)
SeqToSet(s) == IF s = << >> THEN {} ELSE {Head(s)} \cup SeqToSet(Tail(s))

SeqsUpTo(S, n) == UNION {[1..k -> S] : k \in 0..n}

\* ------------------------------------------------- the Python environment
\* Classes visible to the interpreter.  AKFModule is the abstract base,
\* AKFScenario and SampleModuleArgs are classes that are not modules.
\* The akflib classes are those of akflib.modules (sample, vbox, case); the
\* plugin classes stand for third-party libraries a scenario may declare:
\* a package with a module that fails to import, a nested package, a
\* single-file library, and aliases that collide with akflib's.
AkflibModuleClasses ==
    {"SampleModule", "VBoxCreateModule", "VBoxStartMachineModule",
     "AKFBundleModule", "WriteAKFBundleModule", "RenderAKFBundleModule"}

PluginModuleClasses == {"Flip", "Inner", "LeafModule"}

ModuleClasses == AkflibModuleClasses \cup PluginModuleClasses

\* obj.__module__
ClassModule(c) ==
    CASE c = "SampleModule"           -> "akflib.modules.sample"
      [] c = "SampleModuleArgs"       -> "akflib.modules.sample"
      [] c = "VBoxCreateModule"       -> "akflib.modules.vbox"
      [] c = "VBoxStartMachineModule" -> "akflib.modules.vbox"
      [] c = "AKFBundleModule"        -> "akflib.modules.case"
      [] c = "WriteAKFBundleModule"   -> "akflib.modules.case"
      [] c = "RenderAKFBundleModule"  -> "akflib.modules.case"
      [] c = "Flip"                   -> "plugins.coin"
      [] c = "Inner"                  -> "plugins.deep.inner"
      [] c = "LeafModule"             -> "leafmod"
      [] OTHER                        -> "akflib.declarative.core"

\* issubclass(obj, AKFModule): true of every module class and of AKFModule
\* itself
IsSubclassOfAKFModule(c) == c \in ModuleClasses \cup {"AKFModule"}

\* the class attribute `aliases`
Aliases(c) ==
    CASE c = "SampleModule"           -> <<"sample">>
      [] c = "VBoxCreateModule"       -> <<"vbox_start">>
      [] c = "VBoxStartMachineModule" -> <<"vbox_start_machine">>
      [] c = "AKFBundleModule"        -> <<"akf_bundle">>
      [] c = "WriteAKFBundleModule"   -> <<"write_akf_bundle">>
      [] c = "RenderAKFBundleModule"  -> <<"render_akf_bundle">>
      [] c = "Flip"                   -> <<"sample", "toss">>
      [] c = "Inner"                  -> <<"toss">>
      [] c = "LeafModule"             -> <<"leaf">>
      [] OTHER                        -> << >>

\* hasattr(cls, "aliases"): AKFModule only annotates the attribute
HasAliases(c) == c \in ModuleClasses

\* outcome of importlib.import_module(ns)
ImportOutcome(ns) ==
    IF ns \in {"akflib.modules", "akflib.modules.case", "akflib.modules.sample",
               "akflib.modules.vbox", "akflib.declarative.core",
               "akflib.declarative.main", "plugins", "plugins.coin",
               "plugins.deep", "plugins.deep.inner", "leafmod"}
    THEN "ok"
    ELSE IF ns = "" THEN "ValueError" ELSE "ImportError"

\* hasattr(package, "__path__")
HasPath(ns) == ns \in {"akflib.modules", "plugins", "plugins.deep"}

\* pkgutil.iter_modules(package.__path__, package_name + "."): (name, is_pkg)
IterModules(ns) ==
    CASE ns = "akflib.modules" -> << <<"akflib.modules.case", FALSE>>,
                                     <<"akflib.modules.sample", FALSE>>,
                                     <<"akflib.modules.vbox", FALSE>> >>
      [] ns = "plugins"        -> << <<"plugins.broken", FALSE>>,
                                     <<"plugins.coin", FALSE>>,
                                     <<"plugins.deep", TRUE>> >>
      [] ns = "plugins.deep"   -> << <<"plugins.deep.inner", FALSE>> >>
      [] OTHER                 -> << >>

\* inspect.getmembers(module, inspect.isclass): classes bound in the
\* namespace, those it imports included, sorted by name
Members(ns) ==
    CASE ns = "akflib.modules.case" ->
             <<"AKFBundleModule", "AKFModule", "RenderAKFBundleModule",
               "WriteAKFBundleModule">>
      [] ns = "akflib.modules.sample" ->
             <<"AKFModule", "SampleModule", "SampleModuleArgs">>
      [] ns = "akflib.modules.vbox" ->
             <<"AKFModule", "VBoxCreateModule", "VBoxStartMachineModule">>
      [] ns = "akflib.declarative.core" -> <<"AKFModule", "AKFScenario">>
      [] ns = "akflib.declarative.main" -> <<"AKFModule", "AKFScenario">>
      [] ns = "plugins.coin"       -> <<"Flip">>
      [] ns = "plugins.deep.inner" -> <<"Inner">>
      [] ns = "leafmod"            -> <<"LeafModule">>
      [] OTHER                     -> << >>

\* attributes of a namespace that are not classes
NonClassAttrs(ns) ==
    IF ns \in {"akflib.declarative.main", "akflib.modules.vbox",
               "akflib.modules.case"}
    THEN {"logger"} ELSE {}

Missing == "<missing>"

\* getattr(module, object_name)
GetAttr(ns, ident) ==
    IF ident \in SeqToSet(Members(ns)) THEN ident
    ELSE IF ident \in NonClassAttrs(ns) THEN ident
    ELSE Missing

\* ------------------------------------------------------ declarative/util
\* get_full_qualname: ".".join([type.__module__, type.__name__])
get_full_qualname(c) == <<ClassModule(c), c>>

RECURSIVE CollectClasses(_, _, _)
CollectClasses(members, name, acc) ==
    IF members = << >> THEN acc
    ELSE LET obj == Head(members)
             keep == /\ IsSubclassOfAKFModule(obj)
                     /\ ClassModule(obj) = name
                     /\ obj # "AKFModule"
                     /\ obj \notin SeqToSet(acc.modules)
         IN CollectClasses(Tail(members), name,
                IF keep THEN [acc EXCEPT !.modules = Append(@, obj)] ELSE acc)

\* plausible slip: no exception is handled
except_clause_none(handled, e) == FALSE

\* `except handled as e`: the clause takes the exception or lets it pass
except_clause(handled, e) == e \in handled

RECURSIVE _import_recursive(_, _)
RECURSIVE ScanSubmodules(_, _)

\* the loop over the submodules; acc.raised is the exception leaving the
\* function, "" if none
ScanSubmodules(items, acc) ==
    IF items = << >> \/ acc.raised # "" THEN acc
    ELSE LET name   == Head(items)[1]
             is_pkg == Head(items)[2]
             inner  == {"ImportError", "AttributeError"}
         IN IF ImportOutcome(name) # "ok"
            THEN IF except_clause(inner, ImportOutcome(name))
                 THEN ScanSubmodules(Tail(items),
                          [acc EXCEPT !.warnings = Append(@, name)])
                 ELSE [acc EXCEPT !.raised = ImportOutcome(name)]
            ELSE LET a1 == IF is_pkg THEN _import_recursive(name, acc) ELSE acc
                 IN IF a1.raised # ""
                    THEN IF except_clause(inner, a1.raised)
                         THEN ScanSubmodules(Tail(items),
                                  [a1 EXCEPT !.raised = "",
                                             !.warnings = Append(@, name)])
                         ELSE a1
                    ELSE ScanSubmodules(Tail(items),
                             CollectClasses(Members(name), name, a1))

_import_recursive(package_name, acc) ==
    IF ImportOutcome(package_name) # "ok"
    THEN IF except_clause({"ImportError"}, ImportOutcome(package_name))
         THEN [acc EXCEPT !.warnings = Append(@, package_name)]
         ELSE [acc EXCEPT !.raised = ImportOutcome(package_name)]
    ELSE IF HasPath(package_name)
         THEN LET a1 == ScanSubmodules(IterModules(package_name), acc)
              IN IF a1.raised # "" /\ except_clause({"ImportError"}, a1.raised)
                 THEN [a1 EXCEPT !.raised = "",
                                 !.warnings = Append(@, package_name)]
                 ELSE a1
         ELSE acc

import_all_modules(base_package) ==
    _import_recursive(base_package,
                      [modules |-> << >>, warnings |-> << >>, raised |-> ""])

get_all_module_classes(base_path) == import_all_modules(base_path).modules

\* ------------------------------------------------------ build_module_cache
add_to_cache_overwrite(name, obj, st) ==
    [st EXCEPT !.cache = [n \in DOMAIN @ \cup {name} |->
                              IF n = name THEN obj ELSE @[n]]]

add_to_cache(name, obj, st) ==
    IF name \in DOMAIN st.cache
    THEN [st EXCEPT !.warnings = Append(@, [name |-> name, rejected |-> obj])]
    ELSE [st EXCEPT !.cache = @ @@ (name :> obj)]

RECURSIVE CollectLibraries(_)
CollectLibraries(libraries) ==
    IF libraries = << >> THEN << >>
    ELSE get_all_module_classes(Head(libraries))
             \o CollectLibraries(Tail(libraries))

\* the exception that leaves the loop over the libraries, "" if none
RECURSIVE LibrariesRaised(_)
LibrariesRaised(libraries) ==
    IF libraries = << >> THEN ""
    ELSE IF import_all_modules(Head(libraries)).raised # ""
         THEN import_all_modules(Head(libraries)).raised
         ELSE LibrariesRaised(Tail(libraries))

RECURSIVE AliasRequests(_, _)
AliasRequests(c, aliases) ==
    IF aliases = << >> THEN << >>
    ELSE << [name |-> <<"", Head(aliases)>>, obj |-> c, alias |-> TRUE],
            [name |-> <<ClassModule(c), Head(aliases)>>, obj |-> c,
             alias |-> TRUE] >>
         \o AliasRequests(c, Tail(aliases))

\* the add_to_cache calls one iteration of the module_class loop makes
ClassRequests(c) ==
    << [name |-> get_full_qualname(c), obj |-> c, alias |-> FALSE] >>
        \o (IF HasAliases(c) THEN AliasRequests(c, Aliases(c)) ELSE << >>)

RECURSIVE RegistrationRequests(_)
RegistrationRequests(module_classes) ==
    IF module_classes = << >> THEN << >>
    ELSE ClassRequests(Head(module_classes))
             \o RegistrationRequests(Tail(module_classes))

RECURSIVE ApplyRequests(_, _)
ApplyRequests(reqs, st) ==
    IF reqs = << >> THEN st
    ELSE ApplyRequests(Tail(reqs),
                       add_to_cache(Head(reqs).name, Head(reqs).obj, st))

build_module_cache(libraries) ==
    IF LibrariesRaised(libraries) # ""
    THEN [cache |-> EmptyDict, warnings |-> << >>,
          raised |-> LibrariesRaised(libraries)]
    ELSE ApplyRequests(RegistrationRequests(CollectLibraries(libraries)),
                       [cache |-> EmptyDict, warnings |-> << >>, raised |-> ""])

\* ------------------------------------------------------------ dict helpers
\* d.get(k, None)
DictGet(d, k) == IF k \in DOMAIN d THEN d[k] ELSE None

\* d[k] = v
DictSet(d, k, v) == [x \in DOMAIN d \cup {k} |-> IF x = k THEN v ELSE d[x]]

\* plausible slip: scenario-level keys win
DictMergeLeftWins(a, b) ==
    [k \in DOMAIN a \cup DOMAIN b |-> IF k \in DOMAIN a THEN a[k] ELSE b[k]]

\* a | b
DictMerge(a, b) ==
    [k \in DOMAIN a \cup DOMAIN b |-> IF k \in DOMAIN b THEN b[k] ELSE a[k]]

\* Python truthiness of the values stored in the state context
Truthy(v) == v \notin {None, ""}

\* ---------------------------------------------------- YAML values, schemas
StrValues ==
    {"heads", "tails", "win10", "x", "default", "bundle.jsonld", "output",
     "/opt/pandoc"}
IntValues == {"5", "2"}
BoolValues == {"True", "False"}
MapValues == {"{a:1,b:2}", "{a:9}"}
ListValues == {"[]", "[akflib.renderers.Summary]"}

TypeOf(v) ==
    IF v \in StrValues THEN "str"
    ELSE IF v \in IntValues THEN "int"
    ELSE IF v \in BoolValues THEN "bool"
    ELSE IF v \in ListValues THEN "list"
    ELSE "map"

Field(type, required, default) ==
    [type |-> type, required |-> required, default |-> default]

NullArgs == EmptyDict
NullConfig == EmptyDict

SampleModuleArgs ==
    [arg1 |-> Field("str", TRUE, None), arg2 |-> Field("str", TRUE, None)]

SampleModuleConfig == [config1 |-> Field("str", FALSE, "default")]

VBoxCreateModuleArgs == [machine_name |-> Field("str", TRUE, None)]

VBoxStartMachineModuleArgs ==
    [wait_for_guest_additions |-> Field("bool", FALSE, "True")]

WriteAKFBundleModuleArgs ==
    [output_path |-> Field("path", FALSE, "bundle.jsonld"),
     indent |-> Field("int", FALSE, "2")]

RenderAKFBundleModuleArgs ==
    [renderers |-> Field("list", TRUE, None),
     output_folder |-> Field("path", FALSE, "output"),
     pandoc_path |-> Field("path or None", FALSE, None),
     group_renderers |-> Field("bool", FALSE, "False")]

\* hasattr(module, "arg_model"): the abstract base only annotates it
HasModels(c) == c \in ModuleClasses

arg_model(c) ==
    CASE c = "SampleModule"           -> SampleModuleArgs
      [] c = "VBoxCreateModule"       -> VBoxCreateModuleArgs
      [] c = "VBoxStartMachineModule" -> VBoxStartMachineModuleArgs
      [] c = "WriteAKFBundleModule"   -> WriteAKFBundleModuleArgs
      [] c = "RenderAKFBundleModule"  -> RenderAKFBundleModuleArgs
      [] OTHER                        -> NullArgs

config_model(c) ==
    CASE c = "SampleModule" -> SampleModuleConfig
      [] OTHER              -> NullConfig

dependencies(c) ==
    CASE c = "SampleModule"           -> { <<"", "random">> }
      [] c = "VBoxCreateModule"       ->
             { <<"akflib.core.hypervisor.vbox", "VBoxHypervisor">> }
      [] c = "VBoxStartMachineModule" ->
             { <<"akflib.core.hypervisor.vbox", "VBoxHypervisor">> }
      [] c = "AKFBundleModule"        -> { <<"akflib.rendering.objs", "AKFBundle">> }
      [] c = "WriteAKFBundleModule"   -> { <<"pathlib", "Path">> }
      [] c = "RenderAKFBundleModule"  ->
             { <<"akflib.rendering.core", "bundle_to_pdf">>,
               <<"akflib.rendering.core", "get_pandoc_path">>,
               <<"akflib.rendering.core", "get_renderer_classes">>,
               <<"pathlib", "Path">> }
      [] OTHER                        -> {}

\* does a field of the given type accept the YAML value (pydantic, lax mode)
Accepts(type, v) ==
    CASE type = "str"  -> TypeOf(v) = "str"
      [] type = "path" -> TypeOf(v) = "str"
      [] type = "int"  -> TypeOf(v) \in {"int", "bool"}
      [] type = "bool" -> TypeOf(v) = "bool"
      [] type = "list" -> TypeOf(v) = "list"
      [] type = "path or None" -> v = None \/ TypeOf(v) = "str"

\* model.model_validate(mapping): extra keys are ignored, defaults filled in
ModelValid(schema, m) ==
    \A f \in DOMAIN schema :
        IF f \in DOMAIN m THEN Accepts(schema[f].type, m[f])
        ELSE ~schema[f].required

model_validate(schema, m) ==
    [f \in DOMAIN schema |-> IF f \in DOMAIN m THEN m[f] ELSE schema[f].default]

\* ----------------------------------------------- the random facility
RngStates == 0..MaxRng

\* random.seed(a) for a str: the state is a function of the string only
SeedState(seed) == IF seed = "42" THEN 42 % (MaxRng + 1) ELSE 1337 % (MaxRng + 1)

NextRng(r) == (r + 1) % (MaxRng + 1)

\* random.choice(options)
RandomChoice(r, options) == options[(r % Len(options)) + 1]

RECURSIVE AdvanceN(_, _)
AdvanceN(r, n) == IF n = 0 THEN r ELSE AdvanceN(NextRng(r), n - 1)

\* ------------------------------------------------------- generated text
NL == <<"\n">>

RECURSIVE IndentLines(_, _)
IndentLines(lines, level) ==
    IF lines = << >> THEN << >>
    ELSE IF Len(lines) = 1 THEN << <<"code", level, Head(lines)>> >>
    ELSE << <<"code", level, Head(lines)>>, NL >> \o IndentLines(Tail(lines), level)

\* indent_text(align_text(text), state.get("indentation_level", 0)) + "\n"
\* `lines` is the dedented, stripped text split at its line terminators
auto_format(lines, st) ==
    IndentLines(lines, IF "indentation_level" \in DOMAIN st
                       THEN st["indentation_level"] ELSE 0) \o <<NL>>

\* ------------------------------------------------ AKFModule state helpers
\* plausible slip: the variable name is looked up under the handle's key
get_hypervisor_var_wrong_key(st) == DictGet(st, "akflib.hypervisor")

get_hypervisor_var(st) == DictGet(st, "akflib.hypervisor_var")
get_hypervisor(st)     == DictGet(st, "akflib.hypervisor")
get_akf_bundle_var(st) == DictGet(st, "akflib.akf_bundle_var")
get_akf_bundle(st)     == DictGet(st, "akflib.akf_bundle")

\* ------------------------------------------------------ module.execute
\* Each outcome: did the call raise, the state context it left, the state
\* of the random facility, the externally observable effects it made.
\* ------------------------------------------------------- rendering.core
VARIABLE pandoc   \* the Pandoc executable found on this host, None if none

PandocPaths == {None, "/usr/bin/pandoc"}

get_pandoc_path == pandoc

\* one renderer class per listed name
get_renderer_classes(renderers) == renderers

IsEmptyList(v) == v = "[]"

Outcome(raised, st, r, eff) ==
    [raised |-> raised, state |-> st, rng |-> r, effects |-> eff]

Effect(kind, a, b) == [kind |-> kind, a |-> a, b |-> b]

execute(c, args, config, st, r) ==
    CASE c = "SampleModule" ->
           LET options == <<args["arg1"], args["arg2"]>>
           IN { Outcome(FALSE, st, NextRng(r),
                    << Effect("print", RandomChoice(r, options), options) >>) }
      [] c = "VBoxCreateModule" ->
           \* VBoxHypervisor(...) binds to the VirtualBox service and may raise
           LET handle == IF Truthy(get_akf_bundle(st))
                         THEN "<VBoxHypervisor+bundle>" ELSE "<VBoxHypervisor>"
           IN { Outcome(FALSE, DictSet(st, "akflib.hypervisor", handle), r, << >>),
                Outcome(TRUE, st, r, << >>) }
      [] c = "VBoxStartMachineModule" ->
           IF ~Truthy(get_hypervisor(st))
           THEN { Outcome(TRUE, st, r, << >>) }
           ELSE { Outcome(FALSE, st, r,
                      << Effect("start_vm", get_hypervisor(st), << >>) >>),
                  Outcome(TRUE, st, r, << >>) }
      [] c = "AKFBundleModule" ->
           { Outcome(FALSE, DictSet(st, "akflib.akf_bundle", "<AKFBundle>"), r, << >>) }
      [] c = "WriteAKFBundleModule" ->
           IF get_akf_bundle(st) = None
           THEN { Outcome(FALSE, st, r, << >>) }
           ELSE { Outcome(FALSE, st, r,
                      << Effect("write_to_jsonld", args["output_path"], << >>) >>) }
      [] c = "RenderAKFBundleModule" ->
           IF get_akf_bundle(st) = None
                \/ IsEmptyList(get_renderer_classes(args["renderers"]))
           THEN { Outcome(FALSE, st, r, << >>) }
           ELSE LET pandoc_path == IF Truthy(args["pandoc_path"])
                                   THEN args["pandoc_path"]
                                   ELSE get_pandoc_path
                IN IF pandoc_path = None
                   THEN { Outcome(FALSE, st, r, << >>) }
                   ELSE { Outcome(FALSE, st, r,
                              << Effect("mkdir", args["output_folder"], << >>),
                                 Effect("bundle_to_pdf", pandoc_path,
                                        args["output_folder"]) >>) }
      [] OTHER -> { Outcome(FALSE, st, r, << >>) }

\* --------------------------------------------------- module.generate_code
\* the lines the rendering fragment is made of; the configured Pandoc path
\* is written bare between the parentheses, the output folder in quotes
RenderLines(args, st) ==
    << <<"renderer_classes = get_renderer_classes", args["renderers"]>>,
       <<"">> >>
    \o (IF Truthy(args["pandoc_path"])
        THEN << <<"pandoc_path = Path", "bare", args["pandoc_path"]>> >>
        ELSE << <<"pandoc_path = get_pandoc_path()">>,
                <<"if pandoc_path is None:">>,
                <<"    raise RuntimeError">> >>)
    \o << <<"">>,
           <<"pandoc_output_folder = Path", "quoted", args["output_folder"]>>,
           <<"pandoc_output_folder.mkdir">>,
           <<"">>,
           <<"bundle_to_pdf", get_akf_bundle_var(st), "renderer_classes",
             "pandoc_output_folder", "pandoc_path", args["group_renderers"]>> >>

GenOutcome(raised, st, text) == [raised |-> raised, state |-> st, text |-> text]

generate_code(c, args, config, st) ==
    CASE c = "SampleModule" ->
           GenOutcome(FALSE, st,
               auto_format(<< <<"print_choice", args["arg1"], args["arg2"]>> >>, st))
      [] c = "VBoxCreateModule" ->
           LET st1 == DictSet(st, "akflib.hypervisor_var", "vbox_obj")
           IN IF Truthy(get_akf_bundle_var(st1))
              THEN GenOutcome(FALSE, st1,
                       auto_format(<< <<"vbox_obj = VBoxHypervisor",
                                        args["machine_name"],
                                        get_akf_bundle_var(st1)>> >>, st1))
              ELSE GenOutcome(FALSE, st1,
                       auto_format(<< <<"vbox_obj = VBoxHypervisor",
                                        args["machine_name"]>> >>, st1))
      [] c = "VBoxStartMachineModule" ->
           IF ~Truthy(get_hypervisor_var(st))
           THEN GenOutcome(TRUE, st, << >>)
           ELSE GenOutcome(FALSE, st,
                    auto_format(<< <<"start_vm", get_hypervisor_var(st),
                                     args["wait_for_guest_additions"]>> >>, st))
      [] c = "AKFBundleModule" ->
           LET st1 == DictSet(st, "akflib.akf_bundle_var", "akf_bundle")
           IN GenOutcome(FALSE, st1,
                  auto_format(<< <<"akf_bundle = AKFBundle()">> >>, st1))
      [] c = "WriteAKFBundleModule" ->
           IF get_akf_bundle_var(st) = None
           THEN GenOutcome(FALSE, st, << >>)
           ELSE GenOutcome(FALSE, st,
                    auto_format(<< <<"write_to_jsonld(", get_akf_bundle_var(st)>>,
                                   <<"    Path", args["output_path"]>>,
                                   <<"    indent", args["indent"]>>,
                                   <<")">> >>, st))
      [] c = "RenderAKFBundleModule" ->
           IF get_akf_bundle_var(st) = None \/ IsEmptyList(args["renderers"])
           THEN GenOutcome(FALSE, st, << >>)
           ELSE GenOutcome(FALSE, st, auto_format(RenderLines(args, st), st))
      [] OTHER -> GenOutcome(FALSE, st, auto_format(<< <<"plugin", c>> >>, st))

\* ------------------------------------------------------- module registry
\* what loading one reference does in get_objects_by_name
ImportError(path) ==
    IF ImportOutcome(path[1]) = "ValueError" THEN "ValueError"
    ELSE IF ImportOutcome(path[1]) # "ok" THEN "ImportError"
    ELSE IF GetAttr(path[1], path[2]) = Missing THEN "ImportError"
    ELSE ""

\* plausible slip: a path that cannot be loaded is skipped
get_objects_by_name_lenient(object_paths) ==
    {[err |-> "",
      objects |-> [p \in {q \in object_paths : ImportError(q) = ""} |->
                      GetAttr(p[1], p[2])]]}

\* get_objects_by_name: the set is walked in an unspecified order and the
\* first failing path raises, so any failing path may be the one reported
get_objects_by_name(object_paths) ==
    LET errs == {ImportError(p) : p \in object_paths} \ {""}
    IN IF errs # {}
       THEN {[err |-> e, objects |-> EmptyDict] : e \in errs}
       ELSE {[err |-> "",
              objects |-> [p \in object_paths |-> GetAttr(p[1], p[2])]]}

\* issubclass(obj, AKFModule) raises TypeError on a non-class as well
PassesSubclassCheck(obj) ==
    /\ obj \notin {"logger"}
    /\ IsSubclassOfAKFModule(obj)

needs_import_all(module_paths, cache) == module_paths

needs_import(module_paths, cache) == module_paths \ DOMAIN cache

\* get_akf_modules: outcomes [err, modules (the mapping returned), requested
\* (the paths handed to get_objects_by_name)]
get_akf_modules(module_paths, cache) ==
    LET needs == needs_import(module_paths, cache)
    IN IF needs # {}
       THEN { IF r.err # ""
              THEN [err |-> r.err, modules |-> EmptyDict, requested |-> needs]
              ELSE IF \E p \in DOMAIN r.objects : ~PassesSubclassCheck(r.objects[p])
                   THEN [err |-> "TypeError", modules |-> EmptyDict,
                         requested |-> needs]
                   ELSE [err |-> "", modules |-> r.objects, requested |-> needs]
              : r \in get_objects_by_name(needs) }
       ELSE { [err |-> "", modules |-> cache, requested |-> {}] }

\* -------------------------------------------------- generate_import_statements
\* every string an import statement is built from, in code point order
StringOrder ==
    <<"AKFBundle", "Path", "VBoxHypervisor", "akflib.core.hypervisor.vbox",
      "akflib.rendering.core", "akflib.rendering.objs", "bundle_to_pdf", "from",
      "get_pandoc_path", "get_renderer_classes", "import", "logging", "pathlib",
      "random", "sys">>

Rank(str) == CHOOSE i \in 1..Len(StringOrder) : StringOrder[i] = str

\* one path -> one statement: `import X` or `from A.B import C`
ImportStatement(path) ==
    IF path[1] = "" THEN <<"import", path[2]>>
    ELSE <<"from", path[1], path[2]>>

\* str.__lt__ on two statements
StatementLess(a, b) ==
    \/ Rank(a[1]) < Rank(b[1])
    \/ /\ a[1] = b[1]
       /\ \/ Rank(a[2]) < Rank(b[2])
          \/ /\ a[2] = b[2]
             /\ Len(a) = 3
             /\ Rank(a[3]) < Rank(b[3])

RECURSIVE SortStatements(_)
SortStatements(S) ==
    IF S = {} THEN << >>
    ELSE LET least == CHOOSE x \in S : \A y \in S \ {x} : StatementLess(x, y)
         IN <<least>> \o SortStatements(S \ {least})

RECURSIVE JoinLines(_)
JoinLines(stmts) ==
    IF stmts = << >> THEN << >>
    ELSE IF Len(stmts) = 1 THEN stmts
    ELSE <<Head(stmts), NL>> \o JoinLines(Tail(stmts))

\* the orders in which iterating a set may yield its elements
RECURSIVE IterationOrders(_)
IterationOrders(S) ==
    IF S = {} THEN {<< >>}
    ELSE UNION { { <<x>> \o rest : rest \in IterationOrders(S \ {x}) } : x \in S }

\* plausible slip: the statements are joined in the order the set yields them
generate_import_statements_unsorted(import_paths) ==
    { JoinLines(unique) :
          unique \in IterationOrders({ImportStatement(p) : p \in import_paths}) }

\* `unique` is list(set(import_statements)), in whatever order the set
\* yields the statements; one result per such order
generate_import_statements(import_paths) ==
    { JoinLines(SortStatements(SeqToSet(unique))) :
          unique \in IterationOrders({ImportStatement(p) : p \in import_paths}) }

\* ------------------------------------------------------------ the engines
EngineOutcome(e, called, st, r, eff, text) ==
    [err |-> e, called |-> called, state |-> st, rng |-> r, effects |-> eff,
     text |-> text]

IsValidationError(e) == e \in {"ValidationError:args", "ValidationError:config"}

\* plausible slip: the module runs before its inputs are validated
execute_module_late_validation(module, args, config, st, r) ==
    IF ~HasModels(module)
    THEN {EngineOutcome("AttributeError", FALSE, st, r, << >>, << >>)}
    ELSE { EngineOutcome(
               IF ~ModelValid(arg_model(module), args) THEN "ValidationError:args"
               ELSE IF ~ModelValid(config_model(module), config)
                    THEN "ValidationError:config"
                    ELSE IF o.raised THEN "ModuleError" ELSE "",
               TRUE, o.state, o.rng, o.effects, << >>)
           : o \in execute(module, model_validate(arg_model(module), args),
                           model_validate(config_model(module), config), st, r) }

execute_module(module, args, config, st, r) ==
    IF ~HasModels(module)
    THEN {EngineOutcome("AttributeError", FALSE, st, r, << >>, << >>)}
    ELSE IF ~ModelValid(arg_model(module), args)
    THEN {EngineOutcome("ValidationError:args", FALSE, st, r, << >>, << >>)}
    ELSE IF ~ModelValid(config_model(module), config)
    THEN {EngineOutcome("ValidationError:config", FALSE, st, r, << >>, << >>)}
    ELSE { EngineOutcome(IF o.raised THEN "ModuleError" ELSE "", TRUE,
                         o.state, o.rng, o.effects, << >>)
           : o \in execute(module, model_validate(arg_model(module), args),
                           model_validate(config_model(module), config), st, r) }

generate_code_from_module(module, args, config, st, r) ==
    IF ~HasModels(module)
    THEN {EngineOutcome("AttributeError", FALSE, st, r, << >>, << >>)}
    ELSE IF ~ModelValid(arg_model(module), args)
    THEN {EngineOutcome("ValidationError:args", FALSE, st, r, << >>, << >>)}
    ELSE IF ~ModelValid(config_model(module), config)
    THEN {EngineOutcome("ValidationError:config", FALSE, st, r, << >>, << >>)}
    ELSE LET o == generate_code(module, model_validate(arg_model(module), args),
                                model_validate(config_model(module), config), st)
         IN {EngineOutcome(IF o.raised THEN "ModuleError" ELSE "", TRUE,
                           o.state, r, << >>, o.text)}

\* log entries: a module call and whether it raised; a validation, the
\* config mapping it was given and whether it passed
CallEntry(pos, e) == [pos |-> pos, raised |-> (e = "ModuleError")]

ValEntry(pos, config, e) ==
    [pos |-> pos, config |-> config, ok |-> ~IsValidationError(e)]

\* random.seed(a): a str seeds deterministically, None seeds from the
\* operating system's entropy
random_seed_skipped(seed, r) == {r}

random_seed(seed, r) == IF seed = None THEN RngStates ELSE {SeedState(seed)}

\* plausible slip: the action list is walked backwards
LoopItemReversed(i, n) == n + 1 - i

\* `for action in scenario.actions`: the i-th iteration takes the i-th action
LoopItem(i, n) == i

\* f"{scenario.seed}": the characters of the str, without quotes
FormatValue(v) == v

\* the Python value a seed literal of the generated program evaluates to:
\* digits are an int literal, None is None
EvalLiteral(text) ==
    IF text = None THEN [type |-> "NoneType", value |-> None]
    ELSE [type |-> "int", value |-> text]

\* random.seed(a) for an int takes the number itself as the key, for a str
\* the bytes of the text and their SHA-512 digest: two different states
SeedStateOf(v, r) ==
    CASE v.type = "str" -> {SeedState(v.value)}
      [] v.type = "int" -> {NextRng(SeedState(v.value))}
      [] OTHER -> RngStates

\* the values the generated program prints when it is run with the random
\* facility in state r: one sequence per possible run
RECURSIVE RunProgram(_, _)
RunProgram(text, r) ==
    IF text = << >> THEN {<< >>}
    ELSE LET t == Head(text)
         IN IF t[1] = "random.seed"
            THEN UNION { RunProgram(Tail(text), r2) :
                            r2 \in SeedStateOf(EvalLiteral(t[2]), r) }
            ELSE IF t[1] = "code" /\ t[3][1] = "print_choice"
            THEN { <<RandomChoice(r, <<t[3][2], t[3][3]>>)>> \o p :
                       p \in RunProgram(Tail(text), NextRng(r)) }
            ELSE RunProgram(Tail(text), r)

\* what running a rendering fragment does on a host where get_pandoc_path()
\* answers `found`: the statements are run in order, `locals` holds the
\* program's variables; a raise ends the run
ProgramOutcome(raised, eff) == [raised |-> raised, effects |-> eff]

RECURSIVE RunFragment(_, _, _)
RunFragment(text, found, locals) ==
    IF text = << >> THEN ProgramOutcome(FALSE, << >>)
    ELSE LET t == Head(text)
             stmt == IF t[1] = "code" THEN t[3] ELSE <<"">>
             rest == RunFragment(Tail(text), found, locals)
         IN CASE stmt[1] = "pandoc_path = get_pandoc_path()" ->
                   RunFragment(Tail(text), found, DictSet(locals, "pandoc_path", found))
              [] stmt[1] \in {"pandoc_path = Path", "pandoc_output_folder = Path"} ->
                   IF stmt[2] = "bare"
                   THEN \* a bare path is no expression: the program is rejected
                        ProgramOutcome(TRUE, << >>)
                   ELSE RunFragment(Tail(text), found,
                            DictSet(locals,
                                    IF stmt[1] = "pandoc_path = Path"
                                    THEN "pandoc_path" ELSE "pandoc_output_folder",
                                    stmt[3]))
              [] stmt[1] = "if pandoc_path is None:" ->
                   IF DictGet(locals, "pandoc_path") = None
                   THEN rest
                   ELSE \* the body, one line, is skipped
                        RunFragment(SubSeq(text, 4, Len(text)), found, locals)
              [] stmt[1] = "    raise RuntimeError" ->
                   ProgramOutcome(TRUE, << >>)
              [] stmt[1] = "pandoc_output_folder.mkdir" ->
                   ProgramOutcome(rest.raised,
                       << Effect("mkdir", DictGet(locals, "pandoc_output_folder"),
                                 << >>) >> \o rest.effects)
              [] stmt[1] = "bundle_to_pdf" ->
                   ProgramOutcome(rest.raised,
                       << Effect("bundle_to_pdf", DictGet(locals, "pandoc_path"),
                                 DictGet(locals, "pandoc_output_folder")) >>
                       \o rest.effects)
              [] OTHER -> rest

\* ---------------------------------------------------------- rendering.objs
\* UCO classes and their base class
BaseClass(t) ==
    CASE t = "File"             -> "ObservableObject"
      [] t = "ObservableObject" -> "UcoObject"
      [] t = "Relationship"     -> "UcoObject"
      [] t = "UcoObject"        -> "UcoThing"
      [] OTHER                  -> "object"

RECURSIVE issubclass(_, _)
issubclass(t, u) ==
    \/ t = u
    \/ t # "object" /\ issubclass(BaseClass(t), u)

\* a UCO object: its class, whether it only refers to an object by id, and
\* the UcoThings held by its fields, in the order of get_uco_thing_fields
UcoObject(t, ref, items) == [type |-> t, _is_reference |-> ref, items |-> items]

ObjectPool ==
    { UcoObject("ObservableObject", FALSE, << >>),
      UcoObject("ObservableObject", TRUE, << >>),
      UcoObject("File", FALSE, << >>),
      UcoObject("Relationship", FALSE,
                << UcoObject("File", FALSE, << >>),
                   UcoObject("ObservableObject", TRUE, << >>) >>),
      UcoObject("Relationship", FALSE,
                << UcoObject("ObservableObject", FALSE, << >>) >>) }

\* CASERenderer.object_types of the renderers
RendererObjectTypes ==
    { <<"ObservableObject">>, <<"File">>, <<"Relationship", "ObservableObject">> }

\* Bundle.object is None, one object or a list; _object_index is empty
ObjectAttr(is_list, items) == [is_list |-> is_list, items |-> items]

AKFBundle == [object |-> ObjectAttr(FALSE, << >>), _object_index |-> EmptyDict]

\* self._object_index[type(obj)].append(obj)
_add_obj_to_index(b, obj) ==
    [b EXCEPT !._object_index =
         DictSet(@, obj.type, Append(IF obj.type \in DOMAIN @ THEN @[obj.type]
                                     ELSE << >>, obj))]

RECURSIVE update_index_recursive(_, _)
RECURSIVE update_index_items(_, _)

update_index_items(items, b) ==
    IF items = << >> THEN b
    ELSE update_index_items(Tail(items), update_index_recursive(Head(items), b))

update_index_recursive(obj, b) ==
    update_index_items(obj.items, _add_obj_to_index(b, obj))

_add_obj_to_obj_list(b, obj) ==
    [b EXCEPT !.object = ObjectAttr(TRUE, Append(@.items, obj))]

add_object(b, obj) == update_index_recursive(obj, _add_obj_to_obj_list(b, obj))

RECURSIVE add_objects(_, _)
add_objects(b, objs) ==
    IF objs = << >> THEN b
    ELSE add_objects(add_object(b, Head(objs)), Tail(objs))

RECURSIVE Concat(_)
Concat(seqs) == IF seqs = << >> THEN << >> ELSE Head(seqs) \o Concat(Tail(seqs))

\* the objects of the index under each declared type, type by type
IndexLookup(object_types, b) ==
    Concat([i \in 1..Len(object_types) |->
               IF object_types[i] \in DOMAIN b._object_index
               THEN b._object_index[object_types[i]] ELSE << >>])

RECURSIVE _extract_objects_recursive(_, _)
_extract_objects_recursive(object_types, obj) ==
    Concat([i \in 1..Len(object_types) |->
               IF issubclass(obj.type, object_types[i]) /\ ~obj._is_reference
               THEN <<obj>> ELSE << >>])
    \o Concat([i \in 1..Len(obj.items) |->
                  _extract_objects_recursive(object_types, obj.items[i])])

\* is_akf: isinstance(bundle, AKFBundle)
_extract_related_objects(object_types, b, is_akf) ==
    IF is_akf
    THEN IndexLookup(object_types, b)
    ELSE Concat([i \in 1..Len(b.object.items) |->
                    _extract_objects_recursive(object_types, b.object.items[i])])

\* a plain Bundle holding the same object list
Bundle(b) == [object |-> b.object]

\* ------------------------------------------------------------ scenarios
Seeds == {None, "42"}

ScenarioConfigs == {EmptyDict, [config1 |-> "x", nested |-> "{a:1,b:2}"]}

ScenarioLibraries == {"akflib.modules"}

Action(name, module, args, config) ==
    [name |-> name, module |-> module, args |-> args, config |-> config]

ActionPool ==
    { Action("pick", <<"", "sample">>,
             [arg1 |-> "heads", arg2 |-> "tails"], EmptyDict),
      Action("pick-short", <<"akflib.modules.sample", "SampleModule">>,
             [arg1 |-> "heads"], [nested |-> "{a:9}"]),
      Action("pick-badcfg", <<"akflib.modules.sample", "SampleModule">>,
             [arg1 |-> "tails", arg2 |-> "heads"], [config1 |-> "5"]),
      Action("bundle", <<"", "akf_bundle">>, EmptyDict, [nested |-> "{a:9}"]),
      Action("vm", <<"akflib.modules.vbox", "VBoxCreateModule">>,
             [machine_name |-> "win10"], EmptyDict),
      Action("boot", <<"akflib.modules.vbox", "VBoxStartMachineModule">>,
             EmptyDict, EmptyDict),
      Action("save", <<"akflib.modules.case", "write_akf_bundle">>,
             EmptyDict, EmptyDict),
      Action("ghost", <<"nopkg", "Thing">>, EmptyDict, EmptyDict),
      Action("typo", <<"akflib.modules.sample", "SampleModul">>,
             EmptyDict, EmptyDict),
      Action("base", <<"akflib.declarative.core", "AKFModule">>,
             EmptyDict, EmptyDict),
      Action("model", <<"akflib.declarative.core", "AKFScenario">>,
             EmptyDict, EmptyDict) }

Scenarios ==
    [seed : Seeds, config : ScenarioConfigs,
     libraries : SeqsUpTo(ScenarioLibraries, 1),
     actions : SeqsUpTo(ActionPool, MaxActions)]

NoScenario ==
    [seed |-> None, config |-> EmptyDict, libraries |-> << >>, actions |-> << >>]

LibraryPool == {"akflib.modules", "plugins", "leafmod", "nopkg", ""}

\* ---------------------------------------------------------------- state
VARIABLES
    pc,          \* position of the command / of build_module_cache
    mode,        \* the --translate / --execute flags
    scenario,    \* the parsed AKFScenario
    err,         \* the exception that ended the command, "" if none
    stages,      \* stages of main entered so far, in order
    cache,       \* build_module_cache: module_cache
    warnings,    \* names build_module_cache warned about
    regQueue,    \* add_to_cache calls build_module_cache has still to make
    modules,     \* main: cache | explicit_modules
    requested,   \* paths handed to get_objects_by_name
    idx,         \* 1-based iteration of the engine's loop over actions
    state,       \* the shared state context of the running engine pass
    rng,         \* state of the process-wide random facility
    effects,     \* externally observable effects of the modules, in order
    callLog,     \* positions of the actions whose module was called, in order
    valLog,      \* (position, config) handed to validation, in order
    seedCalls,   \* random.seed calls made by the execution engine
    result,      \* translation_entrypoint: the text built so far
    fragLog,     \* offset in `result` at which each action's fragment starts
    ioLog,       \* per module call of this pass: state given, state left, text
    passLog,     \* the engine passes that ended before the running one
    output_file, \* the --output-file option
    outFile,     \* content of the file at the output path, Absent if none
    twin,        \* a second state context, of an execution run side by side
    bundle       \* an AKFBundle: its `object` attribute and its _object_index

vars == <<pc, mode, scenario, err, stages, cache, warnings, regQueue, modules,
          requested, idx, state, rng, effects, callLog, valLog, seedCalls,
          result, fragLog, ioLog, passLog, output_file, outFile, twin, pandoc, bundle>>

registryVars == <<cache, warnings, regQueue>>
engineVars == <<idx, state, effects, callLog, valLog, seedCalls, result, fragLog,
                ioLog>>
hostVars == <<passLog, outFile, twin, pandoc, bundle>>

Absent == << <<"<absent>">> >>
OldText == << <<"code", 0, <<"old">>>>, NL >>
OutputFiles == {None, "out.py"}

\* --output-file "does nothing when --execute is set": the option is given
\* with --translate alone
OutputFilesOf(flags) ==
    IF flags.translate /\ ~flags.execute THEN OutputFiles ELSE {None}

Init ==
    /\ pc = "main"
    /\ mode = [translate |-> FALSE, execute |-> FALSE]
    /\ scenario = NoScenario
    /\ err = ""
    /\ stages = << >>
    /\ cache = EmptyDict
    /\ warnings = << >>
    /\ regQueue = << >>
    /\ modules = EmptyDict
    /\ requested = {}
    /\ idx = 0
    /\ state = EmptyDict
    /\ rng \in RngStates
    /\ effects = << >>
    /\ callLog = << >>
    /\ valLog = << >>
    /\ seedCalls = << >>
    /\ result = << >>
    /\ fragLog = << >>
    /\ ioLog = << >>
    /\ passLog = << >>
    /\ output_file = None
    /\ outFile \in {Absent, OldText}
    /\ twin = EmptyDict
    /\ pandoc = None
    /\ bundle = AKFBundle

Fail(e) == pc' = "failed" /\ err' = e

\* ------------------------------------------------------------------ main
\* plausible slip: only the absence of both flags is rejected
mode_check_lenient(translate_flag, execute_flag) == translate_flag \/ execute_flag

\* `if not (translate ^ execute): raise RuntimeError(...)`
mode_check(translate_flag, execute_flag) == translate_flag # execute_flag

\* main, up to the mode check
Invoke ==
    /\ pc = "main"
    /\ \E t \in BOOLEAN, e \in BOOLEAN :
          /\ mode' = [translate |-> t, execute |-> e]
          /\ IF ~mode_check(t, e) THEN Fail("UsageError")
             ELSE pc' = "parse" /\ err' = err
    /\ \E out \in OutputFilesOf(mode') : output_file' = out
    /\ stages' = Append(stages, "args")
    /\ UNCHANGED <<scenario, modules, requested, rng>>
    /\ UNCHANGED registryVars
    /\ UNCHANGED engineVars
    /\ UNCHANGED hostVars

\* parse_yaml_file_as(AKFScenario, input_file) on a well-formed document
Parse ==
    /\ pc = "parse"
    /\ \E sc \in Scenarios : scenario' = sc
    /\ pc' = "build"
    /\ stages' = Append(stages, "parse")
    /\ UNCHANGED <<mode, err, modules, requested, rng>>
    /\ UNCHANGED registryVars
    /\ UNCHANGED engineVars
    /\ UNCHANGED <<output_file, passLog, outFile, twin, pandoc, bundle>>

\* ... and on a malformed one
ParseMalformed ==
    /\ pc = "parse"
    /\ Fail("DocumentError")
    /\ stages' = Append(stages, "parse")
    /\ UNCHANGED <<mode, scenario, modules, requested, rng>>
    /\ UNCHANGED registryVars
    /\ UNCHANGED engineVars
    /\ UNCHANGED <<output_file, passLog, outFile, twin, pandoc, bundle>>

\* cache = build_module_cache(scenario.libraries)
BuildCache ==
    /\ pc = "build"
    /\ LET built == build_module_cache(scenario.libraries)
       IN /\ cache' = built.cache
          /\ warnings' = built.warnings
          /\ IF built.raised # ""
             THEN Fail(built.raised)
             ELSE pc' = "resolve" /\ err' = err
    /\ stages' = Append(stages, "build")
    /\ UNCHANGED <<mode, scenario, regQueue, modules, requested, rng>>
    /\ UNCHANGED engineVars
    /\ UNCHANGED <<output_file, passLog, outFile, twin, pandoc, bundle>>

\* explicit_modules = get_akf_modules(module_paths, cache);
\* modules = cache | explicit_modules
Resolve ==
    /\ pc = "resolve"
    /\ LET module_paths == {scenario.actions[i].module :
                                i \in 1..Len(scenario.actions)}
       IN \E o \in get_akf_modules(module_paths, cache) :
             /\ requested' = o.requested
             /\ IF o.err # ""
                THEN Fail(o.err) /\ modules' = modules
                ELSE /\ modules' = DictMerge(cache, o.modules)
                     /\ pc' = "engine"
                     /\ err' = err
    /\ stages' = Append(stages, "resolve")
    /\ UNCHANGED <<mode, scenario, rng>>
    /\ UNCHANGED registryVars
    /\ UNCHANGED engineVars
    /\ UNCHANGED <<output_file, passLog, outFile, twin, pandoc, bundle>>

\* ------------------------------------------------------ execution engine
\* `state: dict[str, Any] = {}` and `state = {"indentation_level": 0}`: a new
\* dict per call, whatever an earlier pass left in its own
fresh_state_shared(previous, initial) == DictMerge(initial, previous)

fresh_state(previous, initial) == initial

\* what each module call was handed and what it returned
IoEntry(given, left, text) == [given |-> given, left |-> left, text |-> text]

\* execution_entrypoint, up to the loop: fresh state, random.seed
ExecStart ==
    /\ pc = "engine"
    /\ mode.execute
    /\ state' = fresh_state(state, EmptyDict)
    /\ \E r \in random_seed(scenario.seed, rng) : rng' = r
    /\ seedCalls' = Append(seedCalls, [value |-> scenario.seed,
                                       before |-> Len(callLog)])
    /\ idx' = 1
    /\ pc' = "exec"
    /\ stages' = Append(stages, "engine")
    /\ UNCHANGED <<mode, scenario, err, modules, requested, effects, callLog,
                   valLog, result, fragLog, ioLog>>
    /\ UNCHANGED registryVars
    /\ UNCHANGED <<output_file, passLog, outFile, twin, pandoc, bundle>>

\* one iteration of the loop; `policy` is what the engine does with an
\* exception: "abort" lets it propagate, "swallow" goes on with the next
\* action, "rollback" undoes the earlier actions before propagating it
ExecStepWith(policy) ==
    /\ pc = "exec"
    /\ idx <= Len(scenario.actions)
    /\ LET pos    == LoopItem(idx, Len(scenario.actions))
           action == scenario.actions[pos]
           config == DictMerge(scenario.config, action.config)
       IN IF action.module \notin DOMAIN modules
          THEN /\ Fail("KeyError")
               /\ UNCHANGED <<idx, state, rng, effects, callLog, valLog, ioLog>>
          ELSE \E o \in execute_module(modules[action.module], action.args,
                                       config, state, rng) :
                  /\ state' = IF o.err # "" /\ policy = "rollback"
                              THEN EmptyDict ELSE o.state
                  /\ rng' = o.rng
                  /\ effects' = IF o.err # "" /\ policy = "rollback"
                                THEN << >> ELSE effects \o o.effects
                  /\ ioLog' = IF o.called
                              THEN Append(ioLog, IoEntry(state, o.state, << >>))
                              ELSE ioLog
                  /\ callLog' = IF o.called
                                THEN Append(callLog, CallEntry(pos, o.err))
                                ELSE callLog
                  /\ valLog' = IF o.err = "AttributeError" THEN valLog
                               ELSE Append(valLog, ValEntry(pos, config, o.err))
                  /\ IF o.err # "" /\ policy # "swallow"
                     THEN Fail(o.err) /\ idx' = idx
                     ELSE idx' = idx + 1 /\ pc' = pc /\ err' = err
    /\ UNCHANGED <<mode, scenario, stages, modules, requested, seedCalls, result,
                   fragLog>>
    /\ UNCHANGED registryVars
    /\ UNCHANGED <<output_file, passLog, outFile, twin, pandoc, bundle>>

\* plausible slip: log the exception and go on with the next action
ExecStepSwallow == ExecStepWith("swallow")

\* plausible slip: a failing run undoes what the earlier actions did
ExecStepRollback == ExecStepWith("rollback")

ExecStep == ExecStepWith("abort")

\* the loop is exhausted: execution_entrypoint and main return
ExecDone ==
    /\ pc = "exec"
    /\ idx > Len(scenario.actions)
    /\ pc' = "done"
    /\ UNCHANGED <<mode, scenario, err, stages, modules, requested, rng>>
    /\ UNCHANGED registryVars
    /\ UNCHANGED engineVars
    /\ UNCHANGED <<output_file, passLog, outFile, twin, pandoc, bundle>>

\* -------------------------------------------------- code generation engine
Header == << <<"docstring">>, NL, NL >>

LoggingSetup == << <<"logging_setup">>, NL, NL >>

\* plausible slip: the output file is written as the text grows
write_output_eagerly(path, old, text, returned) ==
    IF path # None THEN text ELSE old

\* main: Path(output_file).write_text(result), reached once
\* translation_entrypoint has returned; without the option the text is printed
write_output(path, old, text, returned) ==
    IF returned /\ path # None THEN text ELSE old

\* plausible slip: the seed statement is emitted for a seed that is set only
seed_statement_if_set(seed) ==
    IF seed = None THEN << >>
    ELSE << <<"random.seed", FormatValue(seed)>>, NL, NL >>

\* result += f"random.seed({scenario.seed})\n\n", whatever the seed is
seed_statement(seed) == << <<"random.seed", FormatValue(seed)>>, NL, NL >>

\* the engine's own imports
BaselineDependencies == { <<"", "logging">>, <<"", "random">>, <<"", "sys">> }

\* plausible slip: only the modules' dependencies are imported
collect_dependencies_modules_only(used) == UNION {dependencies(m) : m \in used}

\* dependencies = {"logging", "random", "sys"}, then one
\* dependencies.update(module.dependencies) per action
collect_dependencies(used) ==
    BaselineDependencies \cup UNION {dependencies(m) : m \in used}

\* translation_entrypoint, up to the loop: fresh state, header, import
\* block, logging block, seed statement
TransStart ==
    /\ pc = "engine"
    /\ ~mode.execute
    /\ mode.translate
    /\ state' = fresh_state(state, [indentation_level |-> 0])
    /\ LET n == Len(scenario.actions)
           refs == {scenario.actions[i].module : i \in 1..n}
           used == {modules[p] : p \in refs \cap DOMAIN modules}
           deps == collect_dependencies(used)
       IN IF ~(refs \subseteq DOMAIN modules)
          THEN Fail("KeyError") /\ result' = Header
          ELSE IF \E m \in used : ~HasModels(m)
          THEN Fail("AttributeError") /\ result' = Header
          ELSE /\ \E imports \in generate_import_statements(deps) :
                     result' = Header
                               \o imports \o <<NL, NL>>
                               \o LoggingSetup
                               \o seed_statement(scenario.seed)
               /\ pc' = "gen"
               /\ err' = err
    /\ idx' = 1
    /\ stages' = Append(stages, "engine")
    /\ outFile' = write_output(output_file, outFile, result', FALSE)
    /\ UNCHANGED <<mode, scenario, modules, requested, rng, effects, callLog,
                   valLog, seedCalls, fragLog, ioLog>>
    /\ UNCHANGED registryVars
    /\ UNCHANGED <<output_file, passLog, twin, pandoc, bundle>>

\* plausible slip: the comment line alone introduces the fragment
action_intro_comment_only(name) == << <<"#", name>>, NL >>

\* result += f"# {action.name}\n"
\* result += f"logger.info(r'Executing action: {action.name}')\n"
action_intro(name) == << <<"#", name>>, NL, <<"logger.info", name>>, NL >>

\* one iteration of the loop: comment, log statement, module fragment,
\* separator
TransStep ==
    /\ pc = "gen"
    /\ idx <= Len(scenario.actions)
    /\ LET pos    == LoopItem(idx, Len(scenario.actions))
           action == scenario.actions[pos]
           config == DictMerge(scenario.config, action.config)
           intro  == action_intro(action.name)
       IN /\ fragLog' = Append(fragLog, Len(result) + 1)
          /\ \E o \in generate_code_from_module(modules[action.module],
                          action.args, config, state, rng) :
                /\ state' = o.state
                /\ ioLog' = IF o.called
                            THEN Append(ioLog, IoEntry(state, o.state, o.text))
                            ELSE ioLog
                /\ callLog' = IF o.called
                              THEN Append(callLog, CallEntry(pos, o.err))
                              ELSE callLog
                /\ valLog' = IF o.err = "AttributeError" THEN valLog
                             ELSE Append(valLog, ValEntry(pos, config, o.err))
                /\ IF o.err # ""
                   THEN /\ Fail(o.err)
                        /\ idx' = idx
                        /\ result' = result \o intro
                   ELSE /\ idx' = idx + 1
                        /\ result' = result \o intro \o o.text \o <<NL>>
                        /\ pc' = pc
                        /\ err' = err
    /\ outFile' = write_output(output_file, outFile, result', FALSE)
    /\ UNCHANGED <<mode, scenario, stages, modules, requested, rng, effects,
                   seedCalls>>
    /\ UNCHANGED registryVars
    /\ UNCHANGED <<output_file, passLog, twin, pandoc, bundle>>

\* return result + "\n"
TransDone ==
    /\ pc = "gen"
    /\ idx > Len(scenario.actions)
    /\ result' = result \o <<NL>>
    /\ pc' = "done"
    /\ outFile' = write_output(output_file, outFile, result', TRUE)
    /\ UNCHANGED <<mode, scenario, err, stages, modules, requested, idx, state,
                   rng, effects, callLog, valLog, seedCalls, fragLog, ioLog>>
    /\ UNCHANGED registryVars
    /\ UNCHANGED <<output_file, passLog, twin, pandoc, bundle>>

Next ==
    \/ Invoke
    \/ Parse
    \/ ParseMalformed
    \/ BuildCache
    \/ Resolve
    \/ ExecStart
    \/ ExecStep
    \/ ExecDone
    \/ TransStart
    \/ TransStep
    \/ TransDone

Spec == Init /\ [][Next]_vars

\* ------------------------------------------ the entrypoints, called again
PassEntry(translated, completed, st, text) ==
    [translate |-> translated, completed |-> completed, state |-> st,
     result |-> text]

PassInit ==
    /\ Init
    /\ rng = 0
    /\ outFile = Absent

\* the actions of the scenarios the entrypoints are called on more than
\* once: those whose args and config every module accepts
PassActions ==
    {a \in ActionPool : a.name \in {"pick", "bundle", "vm", "boot", "save"}}

PassScenarios ==
    [seed : Seeds, config : {EmptyDict}, libraries : {<<"akflib.modules">>},
     actions : SeqsUpTo(PassActions, MaxActions)]

\* a caller parses a scenario and resolves its modules as main does, up to
\* the call of an entrypoint
PassStart ==
    /\ pc = "main"
    /\ \E e \in BOOLEAN : mode' = [translate |-> ~e, execute |-> e]
    /\ \E sc \in PassScenarios :
          LET built == build_module_cache(sc.libraries)
              module_paths == {sc.actions[i].module : i \in 1..Len(sc.actions)}
          IN \E o \in get_akf_modules(module_paths, built.cache) :
                /\ o.err = ""
                /\ scenario' = sc
                /\ cache' = built.cache
                /\ warnings' = built.warnings
                /\ requested' = o.requested
                /\ modules' = DictMerge(built.cache, o.modules)
    /\ pc' = "engine"
    /\ stages' = <<"args", "parse", "build", "resolve">>
    /\ UNCHANGED <<err, regQueue, rng>>
    /\ UNCHANGED engineVars
    /\ UNCHANGED <<output_file, passLog, outFile, twin, pandoc, bundle>>

\* execution_entrypoint(scenario, modules) or
\* translation_entrypoint(scenario, modules) is called once more, on the
\* scenario and the modules of the pass that has just ended
NextPass ==
    /\ pc \in {"done", "failed"}
    /\ "engine" \in SeqToSet(stages)
    /\ Len(passLog) + 1 < MaxPasses
    /\ passLog' = Append(passLog,
                         PassEntry(~mode.execute, pc = "done", state, result))
    /\ \E e \in BOOLEAN : mode' = [translate |-> ~e, execute |-> e]
    /\ pc' = "engine"
    /\ err' = ""
    /\ idx' = 0
    /\ callLog' = << >>
    /\ valLog' = << >>
    /\ seedCalls' = << >>
    /\ fragLog' = << >>
    /\ ioLog' = << >>
    /\ result' = << >>
    /\ UNCHANGED <<scenario, stages, modules, requested, state, rng, effects>>
    /\ UNCHANGED registryVars
    /\ UNCHANGED <<output_file, outFile, twin, pandoc, bundle>>

PassNext ==
    \/ PassStart
    \/ ExecStart
    \/ ExecStep
    \/ ExecDone
    \/ TransStart
    \/ TransStep
    \/ TransDone
    \/ NextPass

PassSpec == PassInit /\ [][PassNext]_vars

\* ------------------- both engines side by side, on the same action sequence
PairModules ==
    {"VBoxCreateModule", "VBoxStartMachineModule", "AKFBundleModule",
     "WriteAKFBundleModule"}

PairArgs(c) ==
    IF c = "VBoxCreateModule" THEN [machine_name |-> "win10"] ELSE EmptyDict

PairInit ==
    /\ Init
    /\ rng = 0
    /\ outFile = Absent

\* both engines are entered: `state` is the generation pass's context,
\* `twin` the execution pass's
PairStart ==
    /\ pc = "main"
    /\ state' = fresh_state(state, [indentation_level |-> 0])
    /\ twin' = fresh_state(twin, EmptyDict)
    /\ idx' = 1
    /\ pc' = "pair"
    /\ UNCHANGED <<mode, scenario, err, stages, modules, requested, rng, effects,
                   callLog, valLog, seedCalls, result, fragLog, ioLog>>
    /\ UNCHANGED registryVars
    /\ UNCHANGED <<output_file, passLog, outFile, pandoc, bundle>>

\* the next action of the sequence goes through generate_code_from_module
\* on `state` and through execute_module on `twin`
PairStep ==
    /\ pc = "pair"
    /\ idx <= MaxPairLen
    /\ \E c \in PairModules :
          \E g \in generate_code_from_module(c, PairArgs(c), EmptyDict, state, rng),
             x \in execute_module(c, PairArgs(c), EmptyDict, twin, rng) :
                /\ ioLog' = Append(ioLog, IoEntry(state, g.state, g.text))
                /\ callLog' = Append(callLog, CallEntry(idx, x.err))
                /\ effects' = effects \o x.effects
                /\ IF g.err # "" \/ x.err # ""
                   THEN /\ pc' = "pair_failed"
                        /\ err' = IF x.err = "" THEN "generation"
                                  ELSE IF g.err = "" THEN "execution" ELSE "both"
                        /\ UNCHANGED <<state, twin, idx>>
                   ELSE /\ state' = g.state
                        /\ twin' = x.state
                        /\ idx' = idx + 1
                        /\ UNCHANGED <<pc, err>>
    /\ UNCHANGED <<mode, scenario, stages, modules, requested, rng, valLog,
                   seedCalls, result, fragLog>>
    /\ UNCHANGED registryVars
    /\ UNCHANGED <<output_file, passLog, outFile, pandoc, bundle>>

PairNext == PairStart \/ PairStep

PairSpec == PairInit /\ [][PairNext]_vars

\* ------------------------------------------------ rendering, side by side
\* the actions of a rendering scenario: a bundle is created, and rendered
\* with or without renderers, with or without a configured Pandoc path
RenderActions ==
    { Action("bundle", <<"akflib.modules.case", "AKFBundleModule">>,
             EmptyDict, EmptyDict) }
    \cup { Action("render", <<"akflib.modules.case", "RenderAKFBundleModule">>,
                  a, EmptyDict) :
              a \in { [renderers |-> "[akflib.renderers.Summary]"],
                      [renderers |-> "[]"],
                      [renderers |-> "[akflib.renderers.Summary]",
                       pandoc_path |-> "/opt/pandoc"],
                      [renderers |-> "[akflib.renderers.Summary]",
                       output_folder |-> "x", group_renderers |-> "True"] } }

RenderInit ==
    /\ Init
    /\ rng = 0
    /\ outFile = Absent

\* the scenario is run on a host with or without Pandoc; `state` is the
\* generation pass's context, `twin` the execution pass's
RenderStart ==
    /\ pc = "main"
    /\ pandoc' \in PandocPaths
    /\ state' = fresh_state(state, [indentation_level |-> 0])
    /\ twin' = fresh_state(twin, EmptyDict)
    /\ idx' = 1
    /\ pc' = "render"
    /\ UNCHANGED <<mode, scenario, err, stages, modules, requested, rng, effects,
                   callLog, valLog, seedCalls, result, fragLog, ioLog>>
    /\ UNCHANGED registryVars
    /\ UNCHANGED <<output_file, passLog, outFile, bundle>>

\* the next action goes through generate_code_from_module on `state`, its
\* fragment is run on the host, and the same action goes through
\* execute_module on `twin`
RenderStep ==
    /\ pc = "render"
    /\ idx <= MaxPairLen
    /\ \E a \in RenderActions :
          \E g \in generate_code_from_module(a.module[2], a.args, a.config,
                                             state, rng),
             x \in execute_module(a.module[2], a.args, a.config, twin, rng) :
                LET p == RunFragment(g.text, pandoc, EmptyDict)
                IN /\ scenario' = [scenario EXCEPT !.actions = Append(@, a)]
                   /\ ioLog' = Append(ioLog, IoEntry(state, g.state, g.text))
                   /\ callLog' = Append(callLog, CallEntry(idx, x.err))
                   /\ effects' = effects \o x.effects
                   /\ IF g.err # "" \/ p.raised \/ x.err # ""
                           \/ p.effects # x.effects
                      THEN /\ pc' = "render_failed"
                           /\ err' = IF g.err # "" THEN "generation"
                                     ELSE IF p.raised /\ x.err # "" THEN "both"
                                     ELSE IF p.raised THEN "program"
                                     ELSE IF x.err # "" THEN "execution"
                                     ELSE "effects"
                           /\ UNCHANGED <<state, twin, idx>>
                      ELSE /\ state' = g.state
                           /\ twin' = x.state
                           /\ idx' = idx + 1
                           /\ UNCHANGED <<pc, err>>
    /\ UNCHANGED <<mode, stages, modules, requested, rng, valLog, seedCalls,
                   result, fragLog>>
    /\ UNCHANGED registryVars
    /\ UNCHANGED <<output_file, passLog, outFile, pandoc, bundle>>

RenderNext == RenderStart \/ RenderStep

RenderSpec == RenderInit /\ [][RenderNext]_vars

\* ------------------------------------- build_module_cache, call by call
\* ----------------------------------------------- validation, side by side
\* the actions of the scenarios both engines are run on: modules that do
\* not raise, with args and config that pass or fail validation
ValidateActions ==
    {a \in ActionPool : a.name \in {"pick", "pick-short", "pick-badcfg", "bundle"}}

ValidateScenarios ==
    [seed : Seeds, config : ScenarioConfigs, libraries : {<<"akflib.modules">>},
     actions : SeqsUpTo(ValidateActions, MaxActions)]

ValidateInit ==
    /\ Init
    /\ rng = 0
    /\ outFile = Absent

\* the scenario is parsed and its modules resolved as main does; both
\* engines are entered with the same scenario and the same mapping
ValidateStart ==
    /\ pc = "main"
    /\ \E sc \in ValidateScenarios :
          LET built == build_module_cache(sc.libraries)
              module_paths == {sc.actions[i].module : i \in 1..Len(sc.actions)}
          IN \E o \in get_akf_modules(module_paths, built.cache) :
                /\ o.err = ""
                /\ scenario' = sc
                /\ cache' = built.cache
                /\ warnings' = built.warnings
                /\ requested' = o.requested
                /\ modules' = DictMerge(built.cache, o.modules)
    /\ state' = fresh_state(state, [indentation_level |-> 0])
    /\ twin' = fresh_state(twin, EmptyDict)
    /\ idx' = 1
    /\ pc' = "validate"
    /\ stages' = <<"args", "parse", "build", "resolve", "engine">>
    /\ UNCHANGED <<mode, err, regQueue, rng, effects, callLog, valLog,
                   seedCalls, result, fragLog, ioLog>>
    /\ UNCHANGED <<output_file, passLog, outFile, pandoc, bundle>>

\* the loop body of both entrypoints on the next action: execute_module on
\* `twin`, then generate_code_from_module on `state`; valLog takes the
\* validation of the execution engine, then that of the generation engine
ValidateStep ==
    /\ pc = "validate"
    /\ idx <= Len(scenario.actions)
    /\ LET action == scenario.actions[idx]
           config == DictMerge(scenario.config, action.config)
       IN \E x \in execute_module(modules[action.module], action.args, config,
                                  twin, rng),
             g \in generate_code_from_module(modules[action.module], action.args,
                                             config, state, rng) :
             /\ valLog' = valLog \o << ValEntry(idx, config, x.err),
                                       ValEntry(idx, config, g.err) >>
             /\ callLog' = IF x.called
                           THEN Append(callLog, CallEntry(idx, x.err))
                           ELSE callLog
             /\ ioLog' = IF g.called
                         THEN Append(ioLog, IoEntry(state, g.state, g.text))
                         ELSE ioLog
             /\ effects' = effects \o x.effects
             /\ result' = result \o g.text
             /\ IF x.err # "" \/ g.err # ""
                THEN /\ Fail(IF x.err # "" THEN x.err ELSE g.err)
                     /\ UNCHANGED <<state, twin, idx>>
                ELSE /\ state' = g.state
                     /\ twin' = x.state
                     /\ idx' = idx + 1
                     /\ UNCHANGED <<pc, err>>
    /\ UNCHANGED <<mode, scenario, stages, modules, requested, rng, seedCalls,
                   fragLog>>
    /\ UNCHANGED registryVars
    /\ UNCHANGED <<output_file, passLog, outFile, pandoc, bundle>>

ValidateNext == ValidateStart \/ ValidateStep

ValidateSpec == ValidateInit /\ [][ValidateNext]_vars

\* ------------------------------------------------------- bundle building
BundleInit ==
    /\ Init
    /\ rng = 0
    /\ outFile = Absent

\* akf_bundle.add_object(obj)
AddObject ==
    /\ Len(bundle.object.items) < MaxObjects
    /\ \E obj \in ObjectPool : bundle' = add_object(bundle, obj)
    /\ UNCHANGED <<pc, mode, scenario, err, stages, modules, requested, rng>>
    /\ UNCHANGED registryVars
    /\ UNCHANGED engineVars
    /\ UNCHANGED <<output_file, passLog, outFile, twin, pandoc>>

\* akf_bundle.add_objects(objs)
AddObjects ==
    /\ \E objs \in SeqsUpTo(ObjectPool, 2) :
          /\ Len(bundle.object.items) + Len(objs) <= MaxObjects
          /\ bundle' = add_objects(bundle, objs)
    /\ UNCHANGED <<pc, mode, scenario, err, stages, modules, requested, rng>>
    /\ UNCHANGED registryVars
    /\ UNCHANGED engineVars
    /\ UNCHANGED <<output_file, passLog, outFile, twin, pandoc>>

BundleNext == AddObject \/ AddObjects

BundleSpec == BundleInit /\ [][BundleNext]_vars

CacheInit ==
    /\ Init
    /\ rng = 0
    /\ outFile = Absent

\* the module classes of every library are collected, the cache is empty
CacheStart ==
    /\ pc = "main"
    /\ \E libs \in SeqsUpTo(LibraryPool, MaxLibs) :
          /\ scenario' = [NoScenario EXCEPT !.libraries = libs]
          /\ IF LibrariesRaised(libs) # ""
             THEN /\ Fail(LibrariesRaised(libs))
                  /\ regQueue' = << >>
             ELSE /\ regQueue' = RegistrationRequests(CollectLibraries(libs))
                  /\ pc' = "caching"
                  /\ err' = err
    /\ cache' = EmptyDict
    /\ warnings' = << >>
    /\ UNCHANGED <<mode, stages, modules, requested, rng>>
    /\ UNCHANGED engineVars
    /\ UNCHANGED <<output_file, passLog, outFile, twin, pandoc, bundle>>

\* the next add_to_cache call
CacheAdd ==
    /\ pc = "caching"
    /\ regQueue # << >>
    /\ LET req == Head(regQueue)
           st  == add_to_cache(req.name, req.obj,
                               [cache |-> cache, warnings |-> warnings])
       IN /\ cache' = st.cache
          /\ warnings' = st.warnings
    /\ regQueue' = Tail(regQueue)
    /\ UNCHANGED <<pc, mode, scenario, err, stages, modules, requested, rng>>
    /\ UNCHANGED engineVars
    /\ UNCHANGED <<output_file, passLog, outFile, twin, pandoc, bundle>>

\* return module_cache
CacheReturn ==
    /\ pc = "caching"
    /\ regQueue = << >>
    /\ pc' = "cached"
    /\ UNCHANGED <<mode, scenario, err, stages, modules, requested, rng>>
    /\ UNCHANGED registryVars
    /\ UNCHANGED engineVars
    /\ UNCHANGED <<output_file, passLog, outFile, twin, pandoc, bundle>>

CacheNext == CacheStart \/ CacheAdd \/ CacheReturn

CacheSpec == CacheInit /\ [][CacheNext]_vars

\* the classes build_module_cache discovered in the declared libraries
Discovered == SeqToSet(CollectLibraries(scenario.libraries))

\* ================================================================ claims
Actions == scenario.actions

IsPrefix(s, t) == Len(s) <= Len(t) /\ \A i \in 1..Len(s) : s[i] = t[i]

\* C1: both engines call the modules in the order of scenario.actions: the
\* i-th module call is for action i, a finished pass has called every
\* action once, and in the generated text the fragment of the i-th action
\* starts with its comment line and before the fragment of every later one.
Thm_C1_ActionsInOrder ==
    /\ \A i \in 1..Len(callLog) : callLog[i].pos = i
    /\ (pc = "done" => Len(callLog) = Len(Actions))
    /\ \A i \in 1..Len(fragLog) :
          /\ result[fragLog[i]] = <<"#", Actions[i].name>>
          /\ \A j \in 1..Len(fragLog) : i < j => fragLog[i] < fragLog[j]

Wit_C1_TwoActionsGenerated ==
    /\ pc = "done"
    /\ mode.translate
    /\ Len(callLog) = 2
    /\ Len(fragLog) = 2
    /\ Actions[1].name # Actions[2].name

\* C2: in execution mode an action whose args or merged config fail
\* validation ends the run with a validation error; execute was not called
\* for that action nor for any later one.
Thm_C2_ValidationAborts ==
    mode.execute =>
        \A i \in 1..Len(valLog) :
            ~valLog[i].ok =>
                /\ i = Len(valLog)
                /\ pc = "failed"
                /\ IsValidationError(err)
                /\ \A j \in 1..Len(callLog) : callLog[j].pos < valLog[i].pos

Wit_C2_InvalidActionBeforeValidOne ==
    /\ mode.execute
    /\ pc = "failed"
    /\ err = "ValidationError:args"
    /\ idx = 1
    /\ Len(Actions) = 2
    /\ Actions[2].name = "pick"
    /\ callLog = << >>

\* C3: in execution mode a module call that raises is the last one made:
\* the run has ended with the module's exception, at that action, and no
\* later action was validated or executed.
Thm_C3_ExceptionAborts ==
    mode.execute =>
        \A i \in 1..Len(callLog) :
            callLog[i].raised =>
                /\ i = Len(callLog)
                /\ pc = "failed"
                /\ err = "ModuleError"
                /\ idx = callLog[i].pos
                /\ \A j \in 1..Len(valLog) : valLog[j].pos <= callLog[i].pos

Wit_C3_FirstActionRaised ==
    /\ mode.execute
    /\ pc = "failed"
    /\ Len(callLog) = 1
    /\ callLog[1].raised
    /\ Len(Actions) > 1

DiscoveryOrder == CollectLibraries(scenario.libraries)

Claims(c) == {ClassRequests(c)[i].name : i \in 1..Len(ClassRequests(c))}

FirstClaimant(name) ==
    LET k == CHOOSE i \in 1..Len(DiscoveryOrder) :
                 /\ name \in Claims(DiscoveryOrder[i])
                 /\ \A j \in 1..(i - 1) : name \notin Claims(DiscoveryOrder[j])
    IN DiscoveryOrder[k]

AliasNames(c) ==
    UNION { { <<"", Aliases(c)[i]>>, <<ClassModule(c), Aliases(c)[i]>> }
            : i \in 1..Len(Aliases(c)) }

References == {Actions[i].module : i \in 1..Len(Actions)}

\* C6: the paths handed to the on-demand import are exactly the references
\* absent from the cache, and the mapping given to the engines keeps every
\* cache binding.
Thm_C6_CacheHitFirst ==
    "resolve" \in SeqToSet(stages) =>
        /\ requested = References \ DOMAIN cache
        /\ requested \cap DOMAIN cache = {}
        /\ err = "" =>
              /\ \A n \in DOMAIN cache :
                    n \in DOMAIN modules /\ modules[n] = cache[n]
              /\ \A n \in requested :
                    n \in DOMAIN modules /\ modules[n] = GetAttr(n[1], n[2])

Wit_C6_CacheHitAndImport ==
    /\ pc = "engine"
    /\ requested # {}
    /\ References \cap DOMAIN cache # {}

\* the code's notion of a reference that does not resolve
RefFails(p) ==
    /\ p \notin DOMAIN cache
    /\ \/ ImportError(p) # ""
       \/ ~PassesSubclassCheck(GetAttr(p[1], p[2]))

\* C7: main enters its stages in the order arguments, parse, build cache,
\* resolve, engine; a malformed document ends the command before the cache is
\* built or anything is resolved, and a reference that fails to resolve, even
\* the last action's, ends it before any module is called.
Thm_C7_StagesInOrder ==
    /\ IsPrefix(stages, <<"args", "parse", "build", "resolve", "engine">>)
    /\ err = "DocumentError" =>
          stages = <<"args", "parse">> /\ requested = {} /\ callLog = << >>
    /\ ("resolve" \in SeqToSet(stages) /\ \E p \in References : RefFails(p)) =>
          /\ pc = "failed"
          /\ stages = <<"args", "parse", "build", "resolve">>
          /\ callLog = << >>
          /\ valLog = << >>

Wit_C7_LastReferenceFails ==
    /\ pc = "failed"
    /\ Len(Actions) = 2
    /\ ~RefFails(Actions[1].module)
    /\ RefFails(Actions[2].module)
    /\ "resolve" \in SeqToSet(stages)

\* C8 as stated: when resolution succeeds, every reference that was absent
\* from the cache names an importable attribute that is a module
\* implementation.
Orig_C8_OnlyImplementationsResolve ==
    ("resolve" \in SeqToSet(stages) /\ err = "" /\ pc = "engine") =>
        \A p \in requested :
            ImportError(p) = "" /\ GetAttr(p[1], p[2]) \in ModuleClasses

\* C9: the config handed to validation has the keys of scenario.config and of
\* action.config, with the action's value for each key of action.config and
\* the scenario's value for every other key, in both engines.
Thm_C9_ShallowMerge ==
    \A i \in 1..Len(valLog) :
        LET merged == valLog[i].config
            sc == scenario.config
            ac == Actions[valLog[i].pos].config
        IN /\ DOMAIN merged = DOMAIN sc \cup DOMAIN ac
           /\ \A k \in DOMAIN merged :
                 merged[k] = IF k \in DOMAIN ac THEN ac[k] ELSE sc[k]

Wit_C9_ActionOverridesNested ==
    \E i \in 1..Len(valLog) :
        /\ "nested" \in DOMAIN scenario.config
        /\ "nested" \in DOMAIN Actions[valLog[i].pos].config
        /\ valLog[i].config["nested"] = "{a:9}"
        /\ valLog[i].config["config1"] = "x"
        /\ mode.translate

Prints == SelectSeq(effects, LAMBDA e : e.kind = "print")

\* C10: with a seed set, the execution engine has called random.seed once,
\* with that seed and before any module call; every value a module drew is
\* the one the seeded sequence gives, whatever state the facility was in
\* before the run.
Thm_C10_SeededBeforeFirstAction ==
    (mode.execute /\ scenario.seed # None /\ "engine" \in SeqToSet(stages)) =>
        /\ seedCalls = << [value |-> scenario.seed, before |-> 0] >>
        /\ rng = AdvanceN(SeedState(scenario.seed), Len(Prints))
        /\ \A i \in 1..Len(Prints) :
              Prints[i].a = RandomChoice(AdvanceN(SeedState(scenario.seed), i - 1),
                                         Prints[i].b)

Wit_C10_TwoSeededDraws ==
    /\ mode.execute
    /\ scenario.seed = "42"
    /\ pc = "done"
    /\ Len(Prints) = 2
    /\ Prints[1].a # Prints[2].a

\* the values execution mode prints for the sample actions of `acts`, the
\* random facility being in state r when the first of them runs
RECURSIVE ExecutionPicks(_, _)
ExecutionPicks(acts, r) ==
    IF acts = << >> THEN << >>
    ELSE IF modules[Head(acts).module] = "SampleModule"
    THEN <<RandomChoice(r, <<Head(acts).args["arg1"], Head(acts).args["arg2"]>>)>>
             \o ExecutionPicks(Tail(acts), NextRng(r))
    ELSE ExecutionPicks(Tail(acts), r)

\* C11: for a non-null seed s the generated program seeds the random
\* facility with the value the execution engine uses, the string s, so that
\* running the generated program picks the values execution mode picks.
Orig_C11_GeneratedProgramPicksSame ==
    (pc = "done" /\ mode.translate /\ scenario.seed # None) =>
        RunProgram(result, rng) =
            {ExecutionPicks(Actions, SeedState(scenario.seed))}

\* the import block of the generated text: what stands between the header
\* and the blank line before the logging setup
ImportBlock ==
    LET k == CHOOSE k \in 1..Len(result) : result[k] = <<"logging_setup">>
    IN SubSeq(result, Len(Header) + 1, k - 3)

\* has translation_entrypoint emitted its preamble
PreambleEmitted ==
    /\ mode.translate
    /\ ~mode.execute
    /\ \E k \in 1..Len(result) : result[k] = <<"logging_setup">>

\* the dependencies of the modules the actions resolve to
ActionDependencies ==
    UNION { dependencies(modules[Actions[i].module]) : i \in 1..Len(Actions) }

\* C13: the import block of the generated program holds exactly one import
\* statement for each distinct dependency in the union of the engine's
\* baseline dependencies and the dependencies of every action's module, one
\* statement per line, and nothing else.
Thm_C13_OneImportPerDependency ==
    PreambleEmitted =>
        LET expected == BaselineDependencies \cup ActionDependencies
            n        == Cardinality(expected)
        IN /\ Len(ImportBlock) = 2 * n - 1
           /\ \A d \in expected :
                 Cardinality({i \in 1..Len(ImportBlock) :
                                  ImportBlock[i] = ImportStatement(d)}) = 1
           /\ \A i \in 1..Len(ImportBlock) :
                 IF i % 2 = 1
                 THEN \E d \in expected : ImportBlock[i] = ImportStatement(d)
                 ELSE ImportBlock[i] = NL

Wit_C13_SharedDependencyOnce ==
    /\ pc = "done"
    /\ PreambleEmitted
    /\ Len(Actions) = 2
    /\ modules[Actions[1].module] = "VBoxCreateModule"
    /\ modules[Actions[2].module] = "VBoxStartMachineModule"
    /\ Len(ImportBlock) = 7

\* C14: a command line with both --translate and --execute, or with
\* neither, ends in a usage error, and nothing else has happened by then: no
\* scenario parsed, no library walked, no module imported, resolved,
\* validated, executed or generated, no text produced.
Thm_C14_ModeCheckedFirst ==
    /\ (stages # << >> /\ mode.translate = mode.execute) =>
           /\ pc = "failed"
           /\ err = "UsageError"
           /\ stages = <<"args">>
           /\ scenario = NoScenario
           /\ cache = EmptyDict
           /\ modules = EmptyDict
           /\ requested = {}
           /\ valLog = << >>
           /\ callLog = << >>
           /\ effects = << >>
           /\ result = << >>
           /\ outFile \in {Absent, OldText}
    /\ (err = "UsageError" => mode.translate = mode.execute)

Wit_C14_BothFlagsRejected ==
    /\ pc = "failed"
    /\ err = "UsageError"
    /\ mode.translate
    /\ mode.execute
    /\ stages = <<"args">>

\* C15: in generation mode the file at the output path changes only in the
\* step in which the whole text has been produced, and then to exactly that
\* text; a run that fails in resolution, validation or generate_code leaves
\* the file as it was, absent or with its old content.
Thm_C15_OutputWrittenOnlyWhenComplete ==
    [][ /\ (outFile' # outFile) =>
               /\ pc' = "done"
               /\ mode.translate
               /\ output_file # None
               /\ idx > Len(Actions)
               /\ outFile' = result'
        /\ (pc' = "failed") => (outFile' = outFile) ]_vars

Wit_C15_FailedAfterPartialText ==
    /\ pc = "failed"
    /\ mode.translate
    /\ output_file # None
    /\ err = "ModuleError"
    /\ Len(fragLog) = 2
    /\ outFile = Absent

\* the module class the i-th module call of the pass was made on
CalledModule(i) == modules[Actions[callLog[i].pos].module]

\* C16: for every built-in module, every generate_code call that returns
\* normally returns text that ends with a line terminator.
Orig_C16_FragmentEndsWithNewline ==
    (mode.translate /\ ~mode.execute) =>
        \A i \in 1..Len(ioLog) :
            (CalledModule(i) \in AkflibModuleClasses /\ ~callLog[i].raised) =>
                /\ ioLog[i].text # << >>
                /\ ioLog[i].text[Len(ioLog[i].text)] = NL

\* C18: when an action fails in execution mode, whatever the earlier actions
\* wrote to the state context and whatever effects they made stay as they
\* were when the failing action started: nothing is rolled back.
Thm_C18_NoRollbackOnFailure ==
    [][ (pc = "exec" /\ pc' = "failed") =>
            /\ \A k \in DOMAIN state :
                  k \in DOMAIN state' /\ state'[k] = state[k]
            /\ IsPrefix(effects, effects')
            /\ IsPrefix(callLog, callLog') ]_vars

Wit_C18_FailedAfterEarlierMutation ==
    /\ pc = "failed"
    /\ mode.execute
    /\ err = "ModuleError"
    /\ idx = 2
    /\ Truthy(get_hypervisor(state))
    /\ Len(callLog) = 2

\* C12: a generation pass that completes returns the text every earlier
\* completed generation pass over the same scenario and modules returned,
\* whatever order the dependency set was iterated in and whatever an earlier
\* pass of either engine left behind.
Thm_C12_SameTextEveryPass ==
    (pc = "done" /\ mode.translate /\ ~mode.execute) =>
        \A i \in 1..Len(passLog) :
            (passLog[i].translate /\ passLog[i].completed) =>
                passLog[i].result = result

Wit_C12_SecondPassSameText ==
    /\ pc = "done"
    /\ mode.translate
    /\ ~mode.execute
    /\ Len(passLog) = 1
    /\ passLog[1].translate
    /\ passLog[1].completed
    /\ Truthy(get_akf_bundle_var(passLog[1].state))
    /\ Len(ImportBlock) >= 9
    /\ Len(fragLog) = 2

\* the state context a pass of the running engine starts from
FreshState == IF mode.execute THEN EmptyDict ELSE [indentation_level |-> 0]

GenerationKeys ==
    {"indentation_level", "akflib.hypervisor_var", "akflib.akf_bundle_var"}

ExecutionKeys == {"akflib.hypervisor", "akflib.akf_bundle"}

\* C19: every pass starts from a fresh state context and hands it from one
\* action to the next: the first module call of a pass sees the fresh
\* context, each later call sees what the call before it left, and no call
\* of an execution pass sees a key of a generation pass or the other way
\* round, whatever passes ran before.
Thm_C19_StatePerPass ==
    /\ (ioLog # << >> => ioLog[1].given = FreshState)
    /\ \A i \in 1..(Len(ioLog) - 1) : ioLog[i + 1].given = ioLog[i].left
    /\ (pc \in {"exec", "gen"} =>
           state = IF ioLog = << >> THEN FreshState ELSE ioLog[Len(ioLog)].left)
    /\ \A i \in 1..Len(ioLog) :
          IF mode.execute
          THEN DOMAIN ioLog[i].given \cap GenerationKeys = {}
          ELSE DOMAIN ioLog[i].given \cap ExecutionKeys = {}

Wit_C19_SecondPassOfOtherEngine ==
    /\ Len(passLog) = 1
    /\ passLog[1].translate
    /\ Truthy(get_akf_bundle_var(passLog[1].state))
    /\ mode.execute
    /\ Len(ioLog) = 2
    /\ Truthy(get_akf_bundle(ioLog[2].given))
    /\ ~Truthy(get_akf_bundle(ioLog[1].given))

\* can execute only raise on this state context: it lacks a handle the
\* module needs
ExecuteMustRaise(c, st) ==
    \A x \in execute_module(c, PairArgs(c), EmptyDict, st, rng) : x.err # ""

GenerateRaises(c, st) ==
    \A g \in generate_code_from_module(c, PairArgs(c), EmptyDict, st, rng) :
        g.err # ""

\* C17: after every prefix of a sequence of VirtualBox and CASE-bundle
\* actions run through both engines, the generation state holds a hypervisor
\* variable name exactly when the execution state holds a hypervisor handle,
\* it holds a bundle variable name exactly when the execution state holds a
\* bundle, and generate_code raises for the next action exactly when execute
\* raises for lack of such a handle.
Thm_C17_EnginesAgreeOnHandles ==
    /\ (pc = "pair" =>
           /\ (get_hypervisor_var(state) # None) <=> (get_hypervisor(twin) # None)
           /\ Truthy(get_hypervisor_var(state)) <=> Truthy(get_hypervisor(twin))
           /\ (get_akf_bundle_var(state) # None) <=> (get_akf_bundle(twin) # None)
           /\ Truthy(get_akf_bundle_var(state)) <=> Truthy(get_akf_bundle(twin))
           /\ \A c \in PairModules :
                 GenerateRaises(c, state) <=> ExecuteMustRaise(c, twin))
    /\ (pc = "pair_failed" => err # "generation")

Wit_C17_BundleThenMachineStarted ==
    /\ pc = "pair"
    /\ idx = 4
    /\ Truthy(get_hypervisor_var(state))
    /\ Truthy(get_akf_bundle(twin))
    /\ \E i \in 1..Len(effects) : effects[i].kind = "start_vm"

\* the position in scenario.libraries of the libraries that provide class c
ProvidedBy(c) ==
    { i \in 1..Len(scenario.libraries) :
          c \in SeqToSet(get_all_module_classes(scenario.libraries[i])) }

\* C20: when modules of two declared libraries claim the same name, the
\* finished cache binds the name to the module of the library declared later
\* in scenario.libraries.
Orig_C20_LaterLibraryOverrides ==
    pc = "cached" =>
        \A c \in Discovered, d \in Discovered :
            \A n \in Claims(c) \cap Claims(d) :
                (/\ c # d
                 /\ ProvidedBy(c) # {}
                 /\ \A i \in ProvidedBy(c), j \in ProvidedBy(d) : i < j)
                    => cache[n] = d

\* the namespaces at or under ns, by the layout of the packages
RECURSIVE NamespacesUnder(_)
NamespacesUnder(ns) ==
    {ns} \cup UNION { NamespacesUnder(IterModules(ns)[i][1]) :
                          i \in 1..Len(IterModules(ns)) }

\* the module implementations defined in namespace ns
DefinedIn(ns) ==
    { c \in SeqToSet(Members(ns)) :
          /\ c \in ModuleClasses
          /\ ClassModule(c) = ns }

\* C21: for each declared library, the finished cache binds the qualified
\* name of every module implementation defined at or under the library's
\* namespace, the namespace the library reference itself names included.
Orig_C21_EveryImplementationRegistered ==
    pc = "cached" =>
        \A i \in 1..Len(scenario.libraries) :
            \A ns \in NamespacesUnder(scenario.libraries[i]) :
                \A c \in DefinedIn(ns) :
                    /\ get_full_qualname(c) \in DOMAIN cache
                    /\ cache[get_full_qualname(c)] = c

\* the dependency names the import block is generated from
ImportedNames == BaselineDependencies \cup ActionDependencies

\* str.__lt__ on two dependency names: the text up to the last dot decides,
\* a bare name comes before a dotted name that starts with it
NameKey(p) == IF p[1] = "" THEN p[2] ELSE p[1]

NameLess(p, q) ==
    \/ Rank(NameKey(p)) < Rank(NameKey(q))
    \/ /\ NameKey(p) = NameKey(q)
       /\ \/ p[1] = "" /\ q[1] # ""
          \/ p[1] # "" /\ q[1] # "" /\ Rank(p[2]) < Rank(q[2])

RECURSIVE SortNames(_)
SortNames(S) ==
    IF S = {} THEN << >>
    ELSE LET least == CHOOSE x \in S : \A y \in S \ {x} : NameLess(x, y)
         IN <<least>> \o SortNames(S \ {least})

RenderInOrder(names) == [i \in 1..Len(names) |-> ImportStatement(names[i])]

\* C22 as stated: the import block is the dependency names sorted
\* lexicographically and rendered in that order.
Orig_C22_ImportsInNameOrder ==
    PreambleEmitted =>
        ImportBlock = JoinLines(RenderInOrder(SortNames(ImportedNames)))

\* C22: the import block holds the rendered statement of every dependency
\* name, and its lines stand in the lexicographic order of the statements'
\* own text, so every `from ... import ...` line comes before every
\* `import ...` line.
Thm_C22_ImportsInStatementOrder ==
    PreambleEmitted =>
        /\ { ImportBlock[i] : i \in {j \in 1..Len(ImportBlock) : j % 2 = 1} }
               = { ImportStatement(d) : d \in ImportedNames }
        /\ \A i \in 1..Len(ImportBlock), j \in 1..Len(ImportBlock) :
              (i % 2 = 1 /\ j % 2 = 1 /\ i < j) =>
                  StatementLess(ImportBlock[i], ImportBlock[j])

Wit_C22_FromLineBeforeEarlierName ==
    /\ pc = "done"
    /\ PreambleEmitted
    /\ \E i \in 1..Len(ImportBlock), j \in 1..Len(ImportBlock) :
          /\ i < j
          /\ ImportBlock[i] = <<"from", "pathlib", "Path">>
          /\ ImportBlock[j] = <<"import", "logging">>

\* the positions of the seeding statements in the generated text
SeedStatements == { i \in 1..Len(result) : result[i][1] = "random.seed" }

ImportsRandom ==
    \E i \in 1..Len(ImportBlock) : ImportBlock[i] = <<"import", "random">>

\* C23 as stated: the seeding statement is there exactly when the seed is
\* set, and with no seed and no module that declares random the text has
\* neither a seeding statement nor an import of random.
Orig_C23_SeedOnlyWhenSet ==
    PreambleEmitted =>
        /\ (SeedStatements # {}) <=> (scenario.seed # None)
        /\ (scenario.seed = None /\ <<"", "random">> \notin ActionDependencies) =>
               (SeedStatements = {} /\ ~ImportsRandom)

\* C23: the generated text always has exactly one seeding statement, right
\* after the logging setup, that carries the text of scenario.seed (None
\* when the seed is unset), and the import block always imports random.
Thm_C23_SeedStatementAlways ==
    PreambleEmitted =>
        LET k == CHOOSE k \in 1..Len(result) : result[k] = <<"logging_setup">>
        IN /\ Len(result) >= k + 5
           /\ result[k + 3] = <<"random.seed", FormatValue(scenario.seed)>>
           /\ SeedStatements = {k + 3}
           /\ ImportsRandom

Wit_C23_UnsetSeedStillSeeded ==
    /\ pc = "done"
    /\ PreambleEmitted
    /\ scenario.seed = None
    /\ Len(Actions) = 2
    /\ <<"", "random">> \notin ActionDependencies
    /\ \E i \in 1..Len(result) : result[i] = <<"random.seed", None>>

\* the text the generation engine has emitted for the i-th action: from the
\* start of its fragment to the start of the next one, or to the end of the
\* loop's text
Fragment(i) ==
    SubSeq(result, fragLog[i],
           IF i < Len(fragLog) THEN fragLog[i + 1] - 1
           ELSE IF pc = "done" THEN Len(result) - 1
           ELSE Len(result))

\* has the i-th action's generate_code call returned normally
Generated(i) == i <= Len(ioLog) /\ ~callLog[i].raised

\* C24 as stated: comment line, module output, one separator, nothing else.
Orig_C24_CommentThenOutput ==
    (mode.translate /\ ~mode.execute) =>
        \A i \in 1..Len(fragLog) :
            Generated(i) =>
                Fragment(i) = << <<"#", Actions[i].name>>, NL >>
                                  \o ioLog[i].text \o <<NL>>

\* C24: for every action the engine emits a comment line with the action's
\* name, then a logger.info line that announces the action, then the
\* module's generate_code output, then one line terminator as separator,
\* and nothing else; an action that fails leaves only the two lines.
Thm_C24_CommentLogOutputSeparator ==
    (mode.translate /\ ~mode.execute) =>
        \A i \in 1..Len(fragLog) :
            Fragment(i) =
                << <<"#", Actions[i].name>>, NL,
                   <<"logger.info", Actions[i].name>>, NL >>
                    \o (IF Generated(i) THEN ioLog[i].text \o <<NL>> ELSE << >>)

Wit_C24_TwoFragmentsAndOneFailed ==
    /\ mode.translate
    /\ ~mode.execute
    /\ pc = "failed"
    /\ Len(fragLog) = 2
    /\ Generated(1)
    /\ ~Generated(2)
    /\ Len(ioLog[1].text) >= 2

\* C25: once a pass has started, the state context changes only in a
\* module call: a step of either engine's loop hands the module the context
\* as it stands and keeps what the module left, and a step without a module
\* call leaves the context alone; the engine itself only creates it, empty
\* or with the indentation level, when the pass starts.
Thm_C25_OnlyModulesMutateState ==
    [][ /\ (pc \in {"exec", "gen"} /\ Len(ioLog') = Len(ioLog) + 1) =>
               /\ ioLog'[Len(ioLog')].given = state
               /\ state' = ioLog'[Len(ioLog')].left
        /\ (pc \in {"exec", "gen"} /\ ioLog' = ioLog) => state' = state
        /\ (pc = "engine" /\ pc' = "exec") => state' = EmptyDict
        /\ (pc = "engine" /\ pc' = "gen") => state' = [indentation_level |-> 0]
      ]_vars

Wit_C25_SecondCallSeesFirstCallsKey ==
    /\ mode.translate
    /\ ~mode.execute
    /\ Len(ioLog) = 2
    /\ ioLog[1].given = [indentation_level |-> 0]
    /\ ioLog[1].left # ioLog[1].given
    /\ ioLog[2].given = ioLog[1].left
    /\ ioLog[2].left # ioLog[2].given

\* C26: a rendering action that finds a bundle, has renderers and no
\* configured Pandoc path has the same outcome in the generated program as
\* in direct execution on a host where no Pandoc executable is found: both
\* abort or both skip
RenderAttempted ==
    /\ pc \in {"render", "render_failed"}
    /\ Len(scenario.actions) = Len(callLog)
    /\ Len(callLog) > 0
    /\ scenario.actions[Len(callLog)].name = "render"

LastRender == scenario.actions[Len(callLog)]

ResolutionSucceeded == pc = "engine" \/ "engine" \in SeqToSet(stages)

Thm_C27_EveryReferenceIsAKey ==
    /\ err # "KeyError"
    /\ ResolutionSucceeded =>
          \A i \in 1..Len(scenario.actions) :
              scenario.actions[i].module \in DOMAIN modules

Wit_C27_LookupsOfCachedAndImported ==
    /\ "engine" \in SeqToSet(stages)
    /\ Len(scenario.actions) = 2
    /\ scenario.actions[1].module \in DOMAIN cache
    /\ scenario.actions[2].module \in requested
    /\ idx = 2
    /\ pc = "failed"
    /\ Len(valLog) = 1

\* the namespaces at or under ns that the walk can load
RECURSIVE ImportableUnder(_)
ImportableUnder(ns) ==
    IF ImportOutcome(ns) # "ok" THEN {}
    ELSE {ns} \cup UNION { ImportableUnder(IterModules(ns)[i][1]) :
                              i \in 1..Len(IterModules(ns)) }

DeclaredLibraries == SeqToSet(scenario.libraries)

\* the module implementations of the loadable namespaces under the libraries
SurvivingClasses ==
    UNION { DefinedIn(ns) : ns \in UNION { ImportableUnder(lib) \ {lib} :
                                              lib \in DeclaredLibraries } }

CacheHasSurvivors ==
    \A c \in SurvivingClasses :
        /\ get_full_qualname(c) \in DOMAIN cache
        /\ cache[get_full_qualname(c)] = c

SkippedWithWarning(lib) ==
    { ns \in NamespacesUnder(lib) : ImportOutcome(ns) # "ok" }
        \subseteq SeqToSet(import_all_modules(lib).warnings)

ExecValidation(k) == valLog[2 * k - 1]
GenValidation(k) == valLog[2 * k]

Thm_C29_EnginesValidateAlike ==
    /\ Len(valLog) % 2 = 0
    /\ \A k \in 1..(Len(valLog) \div 2) :
          LET action == scenario.actions[k]
              schema_ok(model, given) == ModelValid(model, given)
              merged == DictMerge(scenario.config, action.config)
          IN /\ ExecValidation(k).pos = k /\ GenValidation(k).pos = k
             /\ ExecValidation(k).config = merged
             /\ GenValidation(k).config = merged
             /\ ExecValidation(k).ok <=> GenValidation(k).ok
             /\ ~ExecValidation(k).ok =>
                   /\ k = Len(valLog) \div 2
                   /\ pc = "failed"
                   /\ \A j \in 1..Len(callLog) : callLog[j].pos < k
                   /\ Len(ioLog) = k - 1
                   /\ err = IF ~schema_ok(arg_model(modules[action.module]),
                                          action.args)
                            THEN "ValidationError:args"
                            ELSE "ValidationError:config"

Wit_C29_BothRejectSecondActionsConfig ==
    /\ pc = "failed"
    /\ err = "ValidationError:config"
    /\ Len(valLog) = 4
    /\ ~ExecValidation(2).ok
    /\ ~GenValidation(2).ok
    /\ Len(callLog) = 1
    /\ Len(ioLog) = 1

\* the two extractions hold the same objects the same number of times
SameCollection(a, b) ==
    \A o \in SeqToSet(a) \cup SeqToSet(b) :
        Cardinality({i \in 1..Len(a) : a[i] = o})
            = Cardinality({i \in 1..Len(b) : b[i] = o})

\* C30: whatever add_object and add_objects calls built the AKFBundle, every
\* renderer extracts from it, through the index, the same collection of
\* objects as the recursive walk extracts from a plain Bundle with the same
\* object list, objects of a subclass of a declared type and reference
\* objects included
Orig_C30_IndexAgreesWithWalk ==
    \A object_types \in RendererObjectTypes :
        SameCollection(_extract_related_objects(object_types, bundle, TRUE),
                       _extract_related_objects(object_types, Bundle(bundle), FALSE))

====
